---- MODULE Spec2Model ----
(***************************************************************************)
(* Step-execution engine of zilla-script: runZillaScript / runScriptSteps, *)
(* the recursive interpreter over request, loop and include steps.         *)
(* The recursion of runScriptSteps is an explicit stack of frames; every   *)
(* await (request, handler, nested runScriptSteps) is an action boundary.  *)
(***************************************************************************)
EXTENDS Integers, Sequences, FiniteSets, TLC

(* ------------------------------ bounds -------------------------------- *)
\* longest top-level step list of a script
MaxSteps == 2
\* length of the item arrays looped over
MaxItems == 2
\* longest string operand handed to a template helper
MaxStrLen == 3

(* ------------------------------ values -------------------------------- *)
\* JSON-like values: undefined, a number, an array of numbers, an object
\* (a reference: the object itself lives in `objects`), a string
Undef == [t |-> "undef", v |-> <<>>]
Num(n) == [t |-> "num", v |-> <<n>>]
Arr(s) == [t |-> "arr", v |-> s]
Obj(r) == [t |-> "obj", v |-> <<r>>]
Str(s) == [t |-> "str", v |-> <<s>>]
Null == [t |-> "null", v |-> <<>>]
IsObject(x) == x.t = "obj"
IsArray(x) == x.t = "arr"
IsUndefined(x) == x.t = "undef"
\* JS truthiness of a value (0 and "" are falsy, arrays are truthy)
Truthy(x) == CASE x.t \in {"undef", "null"} -> FALSE
               [] x.t = "num" -> x.v[1] # 0
               [] x.t = "str" -> x.v[1] # ""
               [] OTHER -> TRUE

VarNames == {"item", "idx", "list", "p"}
SessNames == {"s1"}
NoVars == [n \in VarNames |-> Undef]
NoSessions == [n \in SessNames |-> ""]

\* the template "{{n}}" and the templates a script may use
Tpl(n) == "{{" \o n \o "}}"
\* s.startsWith("{{")
IsTpl(s) == \E n \in VarNames \cup SessNames : s = Tpl(n)
TplVar(s) == CHOOSE n \in VarNames \cup SessNames : s = Tpl(n)
\* what Handlebars writes for a value: nothing for undefined, the decimal
\* digits of a number, the elements of an array joined by commas
RECURSIVE Join(_)
Join(q) ==
  IF q = <<>> THEN ""
  ELSE IF Len(q) = 1 THEN ToString(q[1])
  ELSE ToString(q[1]) \o "," \o Join(Tail(q))
Render(x) == CASE x.t \in {"undef", "null"} -> ""
               [] x.t = "num" -> ToString(x.v[1])
               [] x.t = "str" -> x.v[1]
               [] x.t = "arr" -> Join(x.v)
               [] OTHER -> "[object Object]"
ItemArray == [k \in 1..MaxItems |-> 10 * k]

\* status of a result that has no response
NoStatus == -1
NoRes == [some |-> FALSE, status |-> NoStatus, body |-> Undef, tok |-> "",
          headers |-> <<>>]
\* one entry of a ZillaRawResponseHeaderArray
Header(name, value) == [name |-> name, value |-> value]
\* the headers of a response as toHeaderArray lists them: names in lower
\* case, one entry per Set-Cookie header
HeadersOk == << Header("etag", "v1"), Header("set-cookie", "sid=c1"),
                Header("etag", "v2"), Header("set-cookie", "sid=c2") >>
\* what the server may answer: status, body, session token carried, headers
Responses ==
  { [some |-> TRUE, status |-> 200, body |-> Arr(ItemArray), tok |-> "t1",
     headers |-> HeadersOk],
    [some |-> TRUE, status |-> 404, body |-> Num(7), tok |-> "",
     headers |-> <<>>] }
\* what the server answers to a login repeated: a new session token
ResponsesAgain ==
  { [some |-> TRUE, status |-> 200, body |-> Arr(ItemArray), tok |-> "t2",
     headers |-> HeadersOk],
    [some |-> TRUE, status |-> 404, body |-> Num(7), tok |-> "",
     headers |-> <<>>] }
\* the response a handler returns when it replaces the one it was given
ReplacedRes == [some |-> TRUE, status |-> 500, body |-> Num(0), tok |-> "",
                headers |-> <<>>]
\* what a handler function may do: return the response it was given,
\* return another one, return undefined, throw, assign scope.p and
\* scope.idx and return the response, change scope.p.n in place and
\* return the response
HandlerOutcomes == {"same", "replace", "undefined", "throw", "assign", "mutate"}
\* the value a handler assigns and the number it writes in place
HandlerAssigned == Num(8)
HandlerWritten == 2
CheckOutcomes == {"true", "false", "throw"}

(* ------------------------------ servers ------------------------------- *)
\* init.servers after runZillaScript's map: name and session transport
servers == << [name |-> "main", session |-> TRUE],
              [name |-> "aux", session |-> FALSE] >>
defServer == servers[1].name

\* an object: the number under each of its keys, 0 where it has none
ObjKeys == {"n", "m", "k"}
NoKeys == [k \in ObjKeys |-> 0]
Has(o, k) == o[k] # NoKeys[k]
\* the object literals of the script: { n: 1, m: 2 }, the value of a step
\* var
LiteralObjects == << [NoKeys EXCEPT !["n"] = 1, !["m"] = 2] >>
\* the object literal an edits entry gives: { m: 5, k: 6 }
Lit(c) == [t |-> "lit", v |-> << c >>]
EditLiteral == Lit([NoKeys EXCEPT !["m"] = 5, !["k"] = 6])

(* --------------------------- step library ----------------------------- *)
\* One record shape for every ZillaScriptStep; unused parts keep defaults.
\*   request : "get" one method property, "nouri" request without
\*             URI/method property, "none" no request property
\*   capture : for each variable "none" | "body" (body: null) | "assign" |
\*             "header" | "cookie" | "invalid" (a source with none of these)
\*   capName : the header or cookie name of the step's captures
\*   expStatus: response.status, NoStatus when the step gives none
\*   validate: the validation groups, each an id and a number of checks
BaseStep ==
  [ id |-> "", kind |-> "request", nameThrows |-> FALSE, request |-> "get",
    server |-> "", session |-> "", vars |-> NoVars,
    expStatus |-> NoStatus, expClass |-> "", capSession |-> "",
    capture |-> [n \in VarNames |-> "none"], assignFrom |-> "", capName |-> "",
    handlers |-> <<>>, validate |-> <<>>,
    hasItems |-> TRUE, itemsVar |-> "", items |-> <<>>, varName |-> "",
    indexVarName |-> "", start |-> 0, steps |-> "",
    include |-> "", params |-> NoVars, edits |-> NoVars ]

\* a validation group: its id, whether rendering the id throws, and how
\* many check strings it has
Group(id, idThrows, n) == [id |-> id, idThrows |-> idThrows, n |-> n]

Req(id) == [BaseStep EXCEPT !.id = id]
Loop(id, body) ==
  [BaseStep EXCEPT !.id = id, !.kind = "loop", !.request = "none",
                   !.varName = "item", !.steps = body]
Inc(id, target) ==
  [BaseStep EXCEPT !.id = id, !.kind = "include", !.request = "none",
                   !.include = target]

StepIds ==
  { "get", "want404", "full", "useSess", "ghostSrv", "noUri", "badName",
    "setItem", "loopLit", "loopVar", "loopFrom1", "loopSelf", "inc",
    "incNoParam", "incBad", "incName", "incLoop",
    "wantZero", "want4xx", "checks2", "badId", "setObj", "touch", "setP",
    "capList", "incObj", "incW", "incTwo", "loopW", "loopInc", "auxSrv",
    "login", "useTpl", "useTplUnset", "auxSess", "incSess",
    "capHdr", "capHdrCase", "capCookie", "capAssign", "capInvalid",
    "incZero", "incOuter", "setList", "loopShrink", "incShrink",
    "incBind", "relogin", "loopLogin", "incSessLoop",
    "editP", "editOnly", "editNum", "incEdit",
    "ghostH", "incGhostH", "incGhostIn", "loginBadCap", "incRoll" }

Library ==
  [ id \in StepIds |->
    CASE id = "get" -> Req(id)
      [] id = "want404" -> [Req(id) EXCEPT !.expStatus = 404]
      [] id = "full" ->
           [Req(id) EXCEPT !.capSession = "s1", !.capture["list"] = "body",
                           !.handlers = <<"h1", "h2">>,
                           !.validate = << Group("v1", FALSE, 1) >>]
      [] id = "useSess" -> [Req(id) EXCEPT !.session = "s1"]
      [] id = "ghostSrv" -> [Req(id) EXCEPT !.server = "ghost"]
      [] id = "noUri" -> [Req(id) EXCEPT !.request = "nouri"]
      [] id = "badName" -> [Req(id) EXCEPT !.nameThrows = TRUE]
      [] id = "setItem" -> [Req(id) EXCEPT !.vars["item"] = Num(99)]
      [] id = "loopLit" -> [Loop(id, "LB") EXCEPT !.items = ItemArray]
      [] id = "loopFrom1" ->
           [Loop(id, "LB") EXCEPT !.items = ItemArray, !.indexVarName = "idx",
                                  !.start = 1]
      [] id = "loopSelf" -> [Loop(id, "WB") EXCEPT !.items = ItemArray]
      [] id = "loopVar" ->
           [Loop(id, "LB") EXCEPT !.itemsVar = "list", !.indexVarName = "idx"]
      [] id = "inc" -> [Inc(id, "sub") EXCEPT !.params["p"] = Num(5)]
      [] id = "incNoParam" -> Inc(id, "sub")
      [] id = "incBad" -> Inc(id, "broken")
      [] id = "incName" -> Inc(id, "misnamed")
      [] id = "incLoop" -> Inc(id, "looping")
      [] id = "wantZero" -> [Req(id) EXCEPT !.expStatus = 0]
      [] id = "want4xx" -> [Req(id) EXCEPT !.expClass = "4xx"]
      [] id = "checks2" ->
           [Req(id) EXCEPT !.validate = << Group("v1", FALSE, 1),
                                           Group("v2", FALSE, 1) >>]
      [] id = "badId" ->
           [Req(id) EXCEPT !.validate = << Group("v1", FALSE, 1),
                                           Group("v2", TRUE, 1) >>]
      [] id = "setObj" -> [Req(id) EXCEPT !.vars["p"] = Obj(1)]
      [] id = "touch" -> [Req(id) EXCEPT !.handlers = <<"h1">>]
      [] id = "setP" -> [Req(id) EXCEPT !.vars["p"] = Num(3)]
      [] id = "capList" -> [Req(id) EXCEPT !.capture["list"] = "body"]
      [] id = "incObj" -> Inc(id, "objs")
      [] id = "incW" -> Inc(id, "writer")
      [] id = "incTwo" -> Inc(id, "two")
      [] id = "loopW" ->
           [Loop(id, "PB") EXCEPT !.items = ItemArray, !.vars["p"] = Num(1)]
      [] id = "loopInc" -> [Loop(id, "LIB") EXCEPT !.items = ItemArray]
      [] id = "auxSrv" -> [Req(id) EXCEPT !.server = "aux"]
      [] id = "login" -> [Req(id) EXCEPT !.capSession = "s1"]
      [] id = "useTpl" ->
           [Req(id) EXCEPT !.vars["p"] = Str("s1"), !.session = Tpl("p")]
      [] id = "useTplUnset" -> [Req(id) EXCEPT !.session = Tpl("idx")]
      [] id = "auxSess" -> [Req(id) EXCEPT !.server = "aux", !.session = "s1"]
      [] id = "incSess" -> Inc(id, "sess")
      [] id = "capHdr" ->
           [Req(id) EXCEPT !.capture["p"] = "header", !.capName = "etag"]
      [] id = "capHdrCase" ->
           [Req(id) EXCEPT !.capture["p"] = "header", !.capName = "ETag"]
      [] id = "capCookie" ->
           [Req(id) EXCEPT !.capture["p"] = "cookie", !.capName = "sid"]
      [] id = "capAssign" ->
           [Req(id) EXCEPT !.capture["p"] = "assign", !.assignFrom = "idx"]
      [] id = "capInvalid" -> [Req(id) EXCEPT !.capture["p"] = "invalid"]
      [] id = "incZero" -> Inc(id, "zero")
      [] id = "incOuter" -> Inc(id, "outer")
      [] id = "setList" -> [Req(id) EXCEPT !.vars["list"] = Arr(<< 7 >>)]
      [] id = "loopShrink" -> [Loop(id, "KB") EXCEPT !.itemsVar = "list"]
      [] id = "incShrink" -> Inc(id, "shrink")
      [] id = "incBind" -> Inc(id, "bind")
      [] id = "relogin" -> [Req(id) EXCEPT !.capSession = "s1"]
      [] id = "loopLogin" -> [Loop(id, "LGB") EXCEPT !.items = ItemArray]
      [] id = "incSessLoop" -> Inc(id, "sessLoop")
      [] id = "editP" ->
           [Req(id) EXCEPT !.vars["p"] = Obj(1), !.vars["item"] = Num(99),
                           !.edits["p"] = EditLiteral]
      [] id = "editOnly" -> [Req(id) EXCEPT !.edits["p"] = EditLiteral]
      [] id = "editNum" -> [Req(id) EXCEPT !.edits["idx"] = Num(3)]
      [] id = "incEdit" -> Inc(id, "edit")
      [] id = "ghostH" -> [Req(id) EXCEPT !.handlers = <<"ghost">>]
      [] id = "incGhostH" -> [Inc(id, "zero") EXCEPT !.handlers = <<"ghost">>]
      [] id = "incGhostIn" -> Inc(id, "ghosted")
      [] id = "loginBadCap" ->
           [Req(id) EXCEPT !.capSession = "s1", !.vars["item"] = Num(99),
                           !.capture["p"] = "assign", !.assignFrom = "idx"]
      [] id = "incRoll" -> Inc(id, "roll") ]

\* nested step lists (loop.steps and the steps of included scripts)
ListIds == {"LB", "WB", "IB", "BB", "NB", "ILB", "OB", "WIB", "PB", "LIB", "SB",
            "PIB", "KB", "CKB", "SLB", "LGB", "SLL",
            "EB", "GB", "RB"}
Lists ==
  [ l \in ListIds |->
    CASE l = "LB" -> <<"get">>
      [] l = "WB" -> <<"setItem">>
      [] l = "IB" -> <<"get", "want404">>
      [] l = "BB" -> <<"get", "noUri">>
      [] l = "NB" -> <<"get", "badName">>
      [] l = "ILB" -> <<"get", "loopLit", "get">>
      [] l = "OB" -> <<"setObj", "touch">>
      [] l = "WIB" -> <<"setP", "capList">>
      [] l = "PB" -> <<"setP">>
      [] l = "LIB" -> <<"incW", "get">>
      [] l = "SB" -> <<"login", "useTplUnset", "useTpl", "auxSess">>
      [] l = "PIB" -> <<"setP", "inc", "get">>
      [] l = "KB" -> <<"setList">>
      [] l = "CKB" -> <<"capList", "loopShrink">>
      [] l = "SLB" -> <<"setItem", "loopFrom1", "get">>
      [] l = "LGB" -> <<"login">>
      [] l = "SLL" -> <<"loopLogin", "useSess", "relogin", "useSess">>
      [] l = "EB" -> <<"setObj", "editOnly", "editNum">>
      [] l = "GB" -> <<"get", "ghostH">>
      [] l = "RB" -> <<"loginBadCap", "useSess">> ]

\* included scripts: declared params (in declaration order) and steps
NoParams == <<>>
Includes ==
  [ s \in {"sub", "broken", "misnamed", "looping", "objs", "writer", "two",
            "sess", "zero", "outer", "shrink",
            "bind", "sessLoop", "edit", "ghosted",
            "roll"} |->
    CASE s = "sub" ->
           [ params |-> << [name |-> "p", required |-> TRUE,
                            default |-> Undef] >>,
             steps |-> "IB" ]
      [] s = "broken" -> [params |-> NoParams, steps |-> "BB"]
      [] s = "misnamed" -> [params |-> NoParams, steps |-> "NB"]
      [] s = "looping" -> [params |-> NoParams, steps |-> "ILB"]
      [] s = "objs" -> [params |-> NoParams, steps |-> "OB"]
      [] s = "writer" -> [params |-> NoParams, steps |-> "WIB"]
      [] s = "sess" -> [params |-> NoParams, steps |-> "SB"]
      [] s = "outer" -> [params |-> NoParams, steps |-> "PIB"]
      [] s = "shrink" -> [params |-> NoParams, steps |-> "CKB"]
      [] s = "bind" -> [params |-> NoParams, steps |-> "SLB"]
      [] s = "sessLoop" -> [params |-> NoParams, steps |-> "SLL"]
      [] s = "edit" -> [params |-> NoParams, steps |-> "EB"]
      [] s = "ghosted" -> [params |-> NoParams, steps |-> "GB"]
      [] s = "roll" -> [params |-> NoParams, steps |-> "RB"]
      [] s = "zero" ->
           [ params |-> << [name |-> "idx", required |-> FALSE,
                            default |-> Num(0)],
                           [name |-> "p", required |-> FALSE,
                            default |-> Num(4)] >>,
             steps |-> "LB" ]
      [] s = "two" ->
           [ params |-> << [name |-> "idx", required |-> FALSE,
                            default |-> Num(4)],
                           [name |-> "p", required |-> TRUE,
                            default |-> Undef] >>,
             steps |-> "IB" ] ]

\* A script is one step of the library, or a step of LeadPool followed by
\* steps of FollowPool: a plain request, a request that sends the session
\* captured before and a loop over a captured array.
LeadPool ==
  { "get", "full", "ghostSrv", "badName", "incBad", "incName", "incW",
    "loopW", "loopLit" }
FollowPool == {"get", "useSess", "loopVar"}

RECURSIVE SeqsUpTo(_, _)
SeqsUpTo(S, n) ==
  IF n = 0 THEN {<<>>}
  ELSE LET shorter == SeqsUpTo(S, n - 1)
       IN shorter \cup {Append(s, x) : s \in {t \in shorter : Len(t) = n - 1},
                                       x \in S}
Scripts ==
  { s \in SeqsUpTo(StepIds, MaxSteps) :
      /\ Len(s) >= 1
      /\ Len(s) >= 2 => s[1] \in LeadPool
      /\ \A k \in 2..Len(s) : s[k] \in FollowPool }

(* ------------------------------- state -------------------------------- *)
VARIABLES
  script,       \* script.steps: the top-level list of step ids
  scriptOpts,   \* continueOnInvalid, continueOnError
  frames,       \* active runScriptSteps invocations, innermost last
  varsHeap,     \* the vars objects; a frame holds a reference into it
  objects,      \* the objects that values refer to: field n of each
  sessions,     \* the one sessions object of the run
  stack,        \* the one stack array shared by all invocations
  outcome,      \* "running" | "returned" | "thrown"
  stepResults,  \* what runZillaScript returns
  inflight,     \* requests sent and not yet answered
  log,          \* history: what happened, in order
  nexec,        \* history: step executions begun so far
  ndisp,        \* history: requests dispatched so far
  cmp,          \* one evaluation of a template helper: operands, outcome
  caller        \* what the caller handed to runZillaScript and still holds

vars == << script, scriptOpts, frames, varsHeap, objects, sessions, stack, outcome,
           stepResults, inflight, log, nexec, ndisp, cmp, caller >>

Top == frames[Len(frames)]
Running == outcome = "running" /\ Len(frames) > 0
SetTop(f) == [frames EXCEPT ![Len(frames)] = f]
StepList(l) == IF l = "main" THEN script ELSE Lists[l]
CurStep(f) == Library[StepList(f.list)[f.idx]]
Ev(e, n, m) == [ev |-> e, eno |-> n, info |-> m]

\* local state of one runScriptSteps invocation; vars0 and sess0 are
\* history: the live vars and sessions as the current step found them
NewFrame(list, ref, encl) ==
  [ list |-> list, idx |-> 0, pc |-> "process", vars |-> ref,
    stepResults |-> <<>>, checkDetails |-> <<>>, overall |-> TRUE,
    res |-> NoRes, i |-> 0, items |-> <<>>, h |-> 0, called |-> FALSE,
    err |-> "",
    eno |-> 0, dno |-> 0, encl |-> encl,
    vars0 |-> NoVars, sess0 |-> NoSessions ]

\* an error thrown inside the step's try block
Throw(f, msg) == [f EXCEPT !.pc = "catch", !.err = msg]

\* handlers registered in init.handlers
RegisteredHandlers == {"h1", "h2"}

\* processStep: does it throw for this step
ProcessStepThrows(step) ==
  IF step.kind = "loop" THEN ~step.hasItems
  ELSE IF step.kind = "include" THEN FALSE
  ELSE \/ step.request \in {"none", "multi", "nouri"}
       \/ \E k \in 1..Len(step.handlers) :
            step.handlers[k] \notin RegisteredHandlers

\* resolveServer: the declared server the step talks to, if any
\* faulty variant: the server the step names is ignored
ServerNameDefault(step) == defServer
ServerName(step) == IF step.server = "" THEN defServer ELSE step.server
ServerFound(step) == \E k \in 1..Len(servers) : servers[k].name = ServerName(step)
ResolveServer(step) ==
  servers[CHOOSE k \in 1..Len(servers) : servers[k].name = ServerName(step)]

(* ------------------- template helpers: the operands ------------------- *)
\* the characters string operands are written with
Alphabet == {"0", "1", ".", "E", "-"}
Strings == UNION {[1..n -> Alphabet] : n \in 0..MaxStrLen}
Digits == << "0", "1", "2", "3", "4", "5", "6", "7", "8", "9" >>
IsDigit(c) == \E d \in 1..Len(Digits) : Digits[d] = c
DigitVal(c) == (CHOOSE d \in 1..Len(Digits) : Digits[d] = c) - 1
\* s[k], or nothing past the end of s
At(s, k) == IF k \in 1..Len(s) THEN s[k] ELSE ""
\* String.prototype.toLowerCase
LowerChar(c) == IF c = "E" THEN "e" ELSE c
toLowerCase(s) == [k \in 1..Len(s) |-> LowerChar(s[k])]
\* the UTF-16 code unit of a character
CharCode(c) ==
  IF c = "+" THEN 43 ELSE IF c = "-" THEN 45 ELSE IF c = "." THEN 46
  ELSE IF c = "E" THEN 69 ELSE IF c = "e" THEN 101 ELSE 48 + DigitVal(c)

\* the values a helper is handed: k is the kind of value, s the characters
\* of a string, a the elements of an array. A number is m * 10^e with m
\* not a multiple of 10 (0 is 0 * 10^0), or NaN; a boolean is m = 1 or 0;
\* a plain object has m keys.
HVal(k, s, m, e, a) == [k |-> k, s |-> s, m |-> m, e |-> e, a |-> a]
HUndefined == HVal("undefined", <<>>, 0, 0, <<>>)
HNull == HVal("null", <<>>, 0, 0, <<>>)
HBool(b) == HVal("boolean", <<>>, IF b THEN 1 ELSE 0, 0, <<>>)
HStr(s) == HVal("string", s, 0, 0, <<>>)
HArray(a) == HVal("array", <<>>, 0, 0, a)
HObject(n) == HVal("object", <<>>, n, 0, <<>>)
NaN == HVal("number", << "N", "a", "N" >>, 0, 0, <<>>)
RECURSIVE HNum(_, _)
HNum(m, e) ==
  IF m = 0 THEN HVal("number", <<>>, 0, 0, <<>>)
  ELSE IF m % 10 = 0 THEN HNum(m \div 10, e + 1)
  ELSE HVal("number", <<>>, m, e, <<>>)
\* typeof
TypeOf(x) == IF x.k \in {"null", "array", "object"} THEN "object" ELSE x.k
IsString(x) == x.k = "string"
IsNumber(x) == x.k = "number"

\* the end of the run of digits of s that starts at i
RECURSIVE DigitsEnd(_, _)
DigitsEnd(s, i) == IF IsDigit(At(s, i)) THEN DigitsEnd(s, i + 1) ELSE i
\* the run of digits of s that starts at i, read on from the value v: where
\* it ends, the value, the number n of digits read
RECURSIVE ScanDigits(_, _, _, _)
ScanDigits(s, i, v, n) ==
  IF IsDigit(At(s, i)) THEN ScanDigits(s, i + 1, 10 * v + DigitVal(s[i]), n + 1)
  ELSE [end |-> i, val |-> v, n |-> n]
SignLen(s) == IF At(s, 1) \in {"+", "-"} THEN 1 ELSE 0
SignOf(s) == IF At(s, 1) = "-" THEN -1 ELSE 1

\* /^-?(?:0|[1-9]\d*)(?:\.\d+)?(?:[eE][+-]?\d+)?$/.test(s), group by group:
\* p1 is where the integer part starts, p2 where it ends, p3 where the
\* fraction ends, q where the digits of the exponent start
RegexEnd(s, p3, q) ==
  (IF At(s, p3) \in {"e", "E"} /\ IsDigit(At(s, q)) THEN DigitsEnd(s, q) ELSE p3)
    = Len(s) + 1
RegexExp(s, p3) ==
  RegexEnd(s, p3, IF At(s, p3 + 1) \in {"+", "-"} THEN p3 + 2 ELSE p3 + 1)
RegexFrac(s, p1, p2) ==
  /\ p2 > p1
  /\ RegexExp(s, IF At(s, p2) = "." /\ IsDigit(At(s, p2 + 1))
                 THEN DigitsEnd(s, p2 + 1) ELSE p2)
RegexInt(s, p1) ==
  RegexFrac(s, p1, IF At(s, p1) = "0" THEN p1 + 1 ELSE DigitsEnd(s, p1))
jsonNumberRegex(s) == RegexInt(s, IF At(s, 1) = "-" THEN 2 ELSE 1)

\* the longest prefix of s that is a decimal literal (sign, digits, a
\* fraction, an exponent): whether there is one, where it ends, its value.
\* ip is the integer part, fp the fraction read on from it, ep the exponent
LiteralExp(s, ip, fp, ep) ==
  LET hasExp == At(s, fp.end) \in {"e", "E"} /\ ep.n > 0
  IN  [ok |-> ip.n > 0 \/ fp.n > 0,
       end |-> IF hasExp THEN ep.end ELSE fp.end,
       val |-> HNum(SignOf(s) * fp.val,
                    (IF ~hasExp THEN 0
                     ELSE IF At(s, fp.end + 1) = "-" THEN 0 - ep.val
                     ELSE ep.val) - fp.n)]
LiteralFrac(s, ip, fp) ==
  LiteralExp(s, ip, fp,
             ScanDigits(s, IF At(s, fp.end + 1) \in {"+", "-"}
                           THEN fp.end + 2 ELSE fp.end + 1, 0, 0))
LiteralInt(s, ip) ==
  LiteralFrac(s, ip, IF At(s, ip.end) = "."
                     THEN ScanDigits(s, ip.end + 1, ip.val, 0)
                     ELSE [end |-> ip.end, val |-> ip.val, n |-> 0])
DecimalLiteral(s) == LiteralInt(s, ScanDigits(s, SignLen(s) + 1, 0, 0))
\* parseFloat(s): the value of that prefix
ValueOrNaN(d) == IF d.ok THEN d.val ELSE NaN
parseFloat(s) == ValueOrNaN(DecimalLiteral(s))
\* parseInt(s): the value of the leading sign and digits
SignedOrNaN(s, ip) == IF ip.n > 0 THEN HNum(SignOf(s) * ip.val, 0) ELSE NaN
parseInt(s) == SignedOrNaN(s, ScanDigits(s, SignLen(s) + 1, 0, 0))
\* ToNumber of a string: the whole string is a decimal literal, or empty
WholeOrNaN(s, d) == IF d.ok /\ d.end = Len(s) + 1 THEN d.val ELSE NaN
StringToNumber(s) ==
  IF s = <<>> THEN HNum(0, 0) ELSE WholeOrNaN(s, DecimalLiteral(s))

RECURSIVE NumDigits(_)
NumDigits(n) == IF n < 10 THEN 1 ELSE 1 + NumDigits(n \div 10)
\* m1 * 10^e1 < m2 * 10^e2 for positive m1, m2
PosLess(m1, e1, m2, e2) ==
  LET g1 == NumDigits(m1) + e1
      g2 == NumDigits(m2) + e2
  IN  IF g1 # g2 THEN g1 < g2
      ELSE IF e1 >= e2 THEN m1 * 10^(e1 - e2) < m2
      ELSE m1 < m2 * 10^(e2 - e1)
\* a < b on numbers; false when either is NaN
NumLess(a, b) ==
  IF a = NaN \/ b = NaN THEN FALSE
  ELSE LET m1 == a.m
           m2 == b.m
       IN  IF m1 < 0 /\ m2 >= 0 THEN TRUE
           ELSE IF m1 >= 0 /\ m2 <= 0 THEN FALSE
           ELSE IF m1 = 0 THEN TRUE
           ELSE IF m1 > 0 THEN PosLess(m1, a.e, m2, b.e)
           ELSE PosLess(0 - m2, b.e, 0 - m1, a.e)
NumEq(a, b) == a # NaN /\ b # NaN /\ a = b

\* the decimal digits of a natural number
RECURSIVE IntDigits(_)
IntDigits(n) ==
  IF n < 10 THEN << Digits[n + 1] >>
  ELSE Append(IntDigits(n \div 10), Digits[(n % 10) + 1])
Zeros(n) == [k \in 1..n |-> "0"]
\* Number.prototype.toString: plain digits from 1e-7 up to 1e21, the
\* exponent form outside
NumToString(x) ==
  IF x = NaN THEN x.s
  ELSE LET m == x.m
           e == x.e
           D == IntDigits(IF m < 0 THEN 0 - m ELSE m)
           n == Len(D) + e
           sign == IF m < 0 THEN << "-" >> ELSE <<>>
           body == IF e >= 0 /\ n <= 21 THEN D \o Zeros(e)
                   ELSE IF 0 < n /\ n <= 21
                        THEN SubSeq(D, 1, n) \o << "." >> \o SubSeq(D, n + 1, Len(D))
                   ELSE IF -6 < n /\ n <= 0 THEN << "0", "." >> \o Zeros(0 - n) \o D
                   ELSE << D[1] >>
                        \o (IF Len(D) > 1 THEN << "." >> \o Tail(D) ELSE <<>>)
                        \o << "e", IF n >= 1 THEN "+" ELSE "-" >>
                        \o IntDigits(IF n >= 1 THEN n - 1 ELSE 1 - n)
       IN  sign \o body

\* a < b on strings: by code units
RECURSIVE StrLess(_, _)
StrLess(a, b) ==
  IF b = <<>> THEN FALSE
  ELSE IF a = <<>> THEN TRUE
  ELSE IF a[1] = b[1] THEN StrLess(Tail(a), Tail(b))
  ELSE CharCode(a[1]) < CharCode(b[1])
\* ToNumber and ToString of a string or a number
ToNumber(x) == IF IsString(x) THEN StringToNumber(x.s) ELSE x
ToStr(x) == IF IsNumber(x) THEN NumToString(x) ELSE x.s
\* a < b of the language on strings and numbers: lexicographic on two
\* strings, numeric otherwise, "undefined" when a side is NaN
RelLessNum(x, y) ==
  IF x = NaN \/ y = NaN THEN "undefined"
  ELSE IF NumLess(x, y) THEN "true" ELSE "false"
RelLess(a, b) ==
  IF IsString(a) /\ IsString(b)
  THEN (IF StrLess(a.s, b.s) THEN "true" ELSE "false")
  ELSE RelLessNum(ToNumber(a), ToNumber(b))
startsWith(a, b) == Len(b) <= Len(a) /\ SubSeq(a, 1, Len(b)) = b
endsWith(a, b) == Len(b) <= Len(a) /\ SubSeq(a, Len(a) - Len(b) + 1, Len(a)) = b
includes(a, b) == \E i \in 0..(Len(a) - Len(b)) : SubSeq(a, i + 1, i + Len(b)) = b

\* what an array or a plain object turns into next to a primitive
ObjectString == << "[", "o", "b", "j", "e", "c", "t", " ",
                   "O", "b", "j", "e", "c", "t", "]" >>
RECURSIVE JoinElems(_)
JoinElems(a) ==
  IF a = <<>> THEN <<>>
  ELSE IF Len(a) = 1 THEN ToStr(a[1])
  ELSE ToStr(a[1]) \o << "," >> \o JoinElems(Tail(a))
ToPrimitive(x) ==
  IF x.k = "array" THEN HStr(JoinElems(x.a))
  ELSE IF x.k = "object" THEN HStr(ObjectString)
  ELSE x
IsNullish(x) == x.k \in {"undefined", "null"}
IsRef(x) == x.k \in {"array", "object"}
PrimToNumber(x) ==
  IF x.k = "boolean" THEN HNum(x.m, 0) ELSE ToNumber(x)
\* l == r of the language; two operands that are objects are two objects
PrimEq(a, b) ==
  IF IsString(a) /\ IsString(b) THEN a.s = b.s
  ELSE NumEq(PrimToNumber(a), PrimToNumber(b))
LooseEq(l, r) ==
  IF IsRef(l) /\ IsRef(r) THEN FALSE
  ELSE IF IsNullish(l) \/ IsNullish(r) THEN IsNullish(l) /\ IsNullish(r)
  ELSE PrimEq(ToPrimitive(l), ToPrimitive(r))
\* x === y on strings and numbers
StrictEq(x, y) == x # NaN /\ x = y

\* isEmpty of zilla-util, as the repository's tests and guide show it:
\* null, undefined, "", [] and {} are empty
isEmpty(x) ==
  \/ IsNullish(x)
  \/ x.k = "string" /\ x.s = <<>>
  \/ x.k = "array" /\ x.a = <<>>
  \/ x.k = "object" /\ x.m = 0

(* ------------------- template helpers: compare ------------------------ *)
isComparable(x) == TypeOf(x) \in {"string", "number"}
\* the named helpers and the operator each hands to compare
operatorHelpers ==
  [eq |-> "==", neq |-> "!=", gt |-> ">", gte |-> ">=", lt |-> "<", lte |-> "<=",
   startsWith |-> "startsWith", notStartsWith |-> "notStartsWith",
   endsWith |-> "endsWith", notEndsWith |-> "notEndsWith",
   includes |-> "includes", notIncludes |-> "notIncludes",
   empty |-> "empty", notEmpty |-> "notEmpty", null |-> "null",
   notNull |-> "notNull", undefined |-> "undefined",
   notUndefined |-> "notUndefined"]
HelperNames == DOMAIN operatorHelpers
\* the operators compare may be handed: those above and an unknown one
UnknownOp == "=~"
CompareOps == {operatorHelpers[n] : n \in HelperNames} \cup {UnknownOp}
numericOps == {">", ">=", "<", "<="}
stringOps == numericOps \cup {"startsWith", "notStartsWith", "endsWith",
                              "notEndsWith", "includes", "notIncludes"}

\* what a call of a helper comes to: a value, or an error with its message
\* (the text, the operator and the operand the message holds)
NoOperand == HVal("none", <<>>, 0, 0, <<>>)
NoError == [msg |-> "", op |-> "", operand |-> NoOperand]
Returns(b) == [threw |-> FALSE, val |-> b, err |-> NoError]
Throws(msg, op, operand) ==
  [threw |-> TRUE, val |-> FALSE, err |-> [msg |-> msg, op |-> op, operand |-> operand]]
InvalidLeft == "invalid left operand"
InvalidRight == "invalid right operand"
Unsupported == "unsupported operator"
\* the TypeError of calling a method the value does not have
NotAFunction == "is not a function"
NullProperty == "Cannot read properties of null"

\* a string operand next to a number: a number when it looks like one
\* faulty variant: every numeric-looking string is read as an integer
CoerceInt(s) ==
  IF jsonNumberRegex(toLowerCase(s)) THEN parseInt(toLowerCase(s)) ELSE HStr(s)
Coerce(s) ==
  LET rString == toLowerCase(s)
  IN  IF jsonNumberRegex(rString)
      THEN IF includes(rString, << "." >>) \/ includes(rString, << "e" >>)
           THEN parseFloat(rString)
           ELSE parseInt(rString)
      ELSE HStr(s)
\* fn(a, b) for an ordering operator, from a < b or b < a
Order(op, less) ==
  IF op \in {">", "<"} THEN Returns(less = "true") ELSE Returns(less = "false")
\* fn(a, b) for a string operator on the string a, b as a string
StringOp(op, a, b) ==
  IF op \in {"startsWith", "notStartsWith"}
  THEN Returns((op = "startsWith") = startsWith(a, b))
  ELSE IF op \in {"endsWith", "notEndsWith"}
  THEN Returns((op = "endsWith") = endsWith(a, b))
  ELSE Returns((op = "includes") = includes(a, b))
\* fn = typeof l === "number" ? numericOps[op] : stringOps[op], and fn(a, b)
ApplyOp(op, a, b) ==
  IF op \notin (IF TypeOf(a) = "number" THEN numericOps ELSE stringOps)
  THEN Throws(Unsupported, op, NoOperand)
  ELSE IF op \in numericOps
  THEN Order(op, RelLess(IF op \in {">", "<="} THEN b ELSE a,
                         IF op \in {">", "<="} THEN a ELSE b))
  ELSE IF a.k = "null" THEN Throws(NullProperty, "includes", a)
  ELSE IF a.k = "object" THEN Throws(NotAFunction, "includes", NoOperand)
  ELSE IF a.k = "array"
  THEN Returns((op = "includes") = (\E k \in 1..Len(a.a) : StrictEq(a.a[k], b)))
  ELSE StringOp(op, a.s, ToStr(b))
\* the compare helper
Compare(l, op, r) ==
  IF op \in {"empty", "notEmpty"} THEN Returns((op = "empty") = isEmpty(l))
  ELSE IF op = "undefined" THEN Returns(TypeOf(l) = "undefined")
  ELSE IF op = "notUndefined" THEN Returns(TypeOf(l) # "undefined")
  ELSE IF op = "null" THEN Returns(IsNullish(l))
  ELSE IF op = "notNull" THEN Returns(~IsNullish(l))
  ELSE IF op \in {"==", "!="} THEN Returns((op = "==") = LooseEq(l, r))
  ELSE IF /\ op \in {"includes", "notIncludes"}
          /\ TypeOf(l) \notin {"string", "object"}
       THEN Throws(InvalidLeft, op, l)
  ELSE IF op \notin {"includes", "notIncludes"} /\ ~isComparable(l)
       THEN Throws(InvalidLeft, op, l)
  ELSE IF ~isComparable(r) THEN Throws(InvalidRight, op, r)
  ELSE ApplyOp(op, IF IsString(l) /\ IsNumber(r) THEN Coerce(l.s) ELSE l,
                   IF IsNumber(l) /\ IsString(r) THEN Coerce(r.s) ELSE r)

\* one check of a validation: `compare l op r` rendered by the step
\* runner. phase "args" holds the operands, "checked" the helper's outcome
\* and the entry pushed to checkDetails
NoDetail == [rendered |-> "", result |-> FALSE, error |-> NoError]
NoCmp == [phase |-> "none", l |-> HUndefined, op |-> "", r |-> HUndefined,
          out |-> Returns(FALSE), detail |-> NoDetail, overall |-> TRUE]
\* the operands checks are run with: every string up to MaxStrLen on one
\* side, a number, a short string or a value of another type on the other
NumberOperands == {HNum(m, 0) : m \in {-1, 0, 1, 2, 10}} \cup {HNum(15, -1)}
OtherOperands ==
  {HUndefined, HNull, HBool(TRUE), HBool(FALSE), HArray(<<>>),
   HArray(<< HStr(<< "1" >>) >>), HObject(0), HObject(1)}
FewOperands ==
  NumberOperands \cup OtherOperands \cup {HStr(<< "1" >>), HStr(<< "1", "0" >>)}
AllOperands == {HStr(s) : s \in Strings} \cup FewOperands
OperandPairs == (AllOperands \X FewOperands) \cup (FewOperands \X AllOperands)

(* ------------------------------ the run ------------------------------- *)
\* the caller's objects: init.servers (absent, an empty array, or the
\* declared servers), whether init.sessions is supplied (the run then uses
\* that very object as its sessions), and the steps of the script object
\* whose request has been written to
Callers == [servers : {"absent", "empty", "declared"}, sessions : BOOLEAN,
            written : {{}}]
PlainCaller == [servers |-> "declared", sessions |-> FALSE, written |-> {}]

Init ==
  /\ script \in Scripts
  /\ scriptOpts \in [continueOnInvalid : BOOLEAN, continueOnError : BOOLEAN]
  /\ frames = << NewFrame("main", 1, <<>>) >>
  /\ varsHeap = << NoVars >>
  /\ objects = LiteralObjects
  /\ sessions = NoSessions
  /\ stack = <<>>
  /\ outcome = "running"
  /\ stepResults = <<>>
  /\ inflight = 0
  /\ log = <<>>
  /\ nexec = 0
  /\ ndisp = 0
  /\ cmp = NoCmp
  /\ caller = PlainCaller

(* ------------------------- runScriptSteps ----------------------------- *)
\* the statements of a request step in program order, from the request
\* to the push of the result
PhaseOrder == << "request", "awaitResponse", "captureSession", "captureVars",
                 "handlers", "validate", "record" >>
\* faulty variant: the checks are evaluated before the handlers run
PhaseOrderChecksFirst == << "request", "awaitResponse", "captureSession",
                           "captureVars", "validate", "handlers", "record" >>
AfterChecksFirst(p) ==
  PhaseOrderChecksFirst[(CHOOSE k \in 1..Len(PhaseOrderChecksFirst) :
                           PhaseOrderChecksFirst[k] = p) + 1]
\* faulty variant: the request is sent but its response is not awaited
AfterNoAwait(p) ==
  IF p = "request" THEN "captureSession"
  ELSE PhaseOrder[(CHOOSE k \in 1..Len(PhaseOrder) : PhaseOrder[k] = p) + 1]
After(p) == PhaseOrder[(CHOOSE k \in 1..Len(PhaseOrder) : PhaseOrder[k] = p) + 1]
\* where the include and loop branches rejoin the request branch
AfterBranch == After("captureVars")

\* the steps of a list whose request object processStep writes uri and
\* method into: those with a method property, up to the first step that is
\* rejected, which is written too when it has several method properties
FirstRejected(l) ==
  IF \E k \in 1..Len(l) : ProcessStepThrows(Library[l[k]])
  THEN CHOOSE k \in 1..Len(l) :
         /\ ProcessStepThrows(Library[l[k]])
         /\ \A j \in 1..(k - 1) : ~ProcessStepThrows(Library[l[j]])
  ELSE Len(l)
RequestsWritten(l) ==
  {l[k] : k \in {j \in 1..FirstRejected(l) :
                   /\ Library[l[j]].kind = "request"
                   /\ Library[l[j]].request \in {"get", "multi"}}}

\* steps = opts.steps.map(processStep): before the first step of the list
ProcessSteps ==
  /\ Running /\ Top.pc = "process"
  /\ LET f == Top
         l == StepList(f.list)
     IN /\ IF \E k \in 1..Len(l) : ProcessStepThrows(Library[l[k]])
           THEN /\ frames' = SetTop([f EXCEPT !.pc = "abort", !.err = "processStep"])
                /\ log' = Append(log, Ev("raise", 0, "processStep"))
           ELSE /\ frames' = SetTop([f EXCEPT !.pc = "begin", !.idx = 1])
                /\ log' = log
        /\ caller' = [caller EXCEPT !.written = @ \cup RequestsWritten(l)]
  /\ UNCHANGED << cmp, objects, script, scriptOpts, varsHeap, sessions, stack, outcome,
                  stepResults, inflight, nexec, ndisp >>

\* top of the for loop: the step name is evaluated, the delay waited for,
\* checkDetails and overall are created; all of it before the try
BeginStep ==
  /\ Running /\ Top.pc = "begin" /\ Top.idx <= Len(StepList(Top.list))
  /\ LET f == Top
         step == CurStep(f)
         n == nexec + 1
     IN /\ nexec' = n
        /\ IF step.nameThrows
           THEN /\ frames' = SetTop([f EXCEPT !.pc = "abort", !.err = "stepName",
                                              !.eno = n])
                /\ log' = log \o << Ev("begin", n, step.id),
                                    Ev("raise", n, "stepName") >>
           ELSE /\ frames' = SetTop([f EXCEPT !.pc = "prepare", !.eno = n,
                                              !.dno = 0, !.checkDetails = <<>>,
                                              !.overall = TRUE, !.res = NoRes,
                                              !.h = 1, !.i = 0, !.items = <<>>,
                                              !.err = "",
                                              !.vars0 = varsHeap[f.vars],
                                              !.sess0 = sessions])
                /\ log' = Append(log, Ev("begin", n, step.id))
  /\ UNCHANGED << cmp, caller, objects, script, scriptOpts, varsHeap, sessions, stack, outcome,
                  stepResults, inflight, ndisp >>

\* step.vars written into the live vars
SetStepVars(v, step) ==
  [n \in VarNames |-> IF IsUndefined(step.vars[n]) THEN v[n] ELSE step.vars[n]]

\* the order in which Object.entries lists the edits of a step
EditOrder == << "item", "idx", "list", "p" >>
\* the own properties Object.assign copies from vars[varName] || {}: those
\* of the object a variable refers to; a number, null and undefined have
\* none
OwnKeys(x, objs) == IF IsObject(x) THEN objs[x.v[1]] ELSE NoKeys
\* faulty variant: the edit replaces the object
EditObjectReplace(base, edit) == edit
\* Object.assign({}, base, edit): the keys of the edit over those of base
EditObject(base, edit) ==
  [k \in ObjKeys |-> IF Has(edit, k) THEN edit[k] ELSE base[k]]
\* editVars: the entries of step.edits applied in order; an object entry
\* binds the variable to a new object, a number entry to the number
RECURSIVE editVars(_, _, _, _)
editVars(step, k, v, objs) ==
  IF k > Len(EditOrder) THEN [vars |-> v, objects |-> objs]
  ELSE LET n == EditOrder[k]
           val == step.edits[n]
       IN IF val.t = "lit"
            THEN editVars(step, k + 1,
                          [v EXCEPT ![n] = Obj(Len(objs) + 1)],
                          Append(objs, EditObject(OwnKeys(v[n], objs),
                                                  val.v[1])))
          ELSE IF val.t = "num"
            THEN editVars(step, k + 1, [v EXCEPT ![n] = val], objs)
          ELSE editVars(step, k + 1, v, objs)

\* server resolution, step vars, edits: the first statements inside the
\* try
Prepare ==
  /\ Running /\ Top.pc = "prepare"
  /\ LET f == Top
         step == CurStep(f)
     IN IF ~ServerFound(step)
        THEN /\ frames' = SetTop(Throw(f, "server not found"))
             /\ log' = Append(log, Ev("raise", f.eno, "server not found"))
             /\ UNCHANGED << varsHeap, objects >>
        ELSE LET edited == editVars(step, 1, SetStepVars(varsHeap[f.vars], step),
                                   objects)
             IN /\ frames' = SetTop([f EXCEPT !.pc = step.kind])
                /\ varsHeap' = [varsHeap EXCEPT ![f.vars] = edited.vars]
                /\ objects' = edited.objects
                /\ log' = log
  /\ UNCHANGED << cmp, caller, script, scriptOpts, sessions, stack, outcome, stepResults,
                  inflight, nexec, ndisp >>

(* ------------------------------ include ------------------------------- *)
\* the loop over include.params: bind each param in declaration order,
\* stop at the first required param the step does not supply
\* `step=${stepName} param=${name} is required by included script`
ParamRequired(name) == "param=" \o name \o " is required by included script"

\* faulty variant: a required param that is missing is skipped
RECURSIVE BindParamsUnchecked(_, _, _, _)
BindParamsUnchecked(decl, k, supplied, v) ==
  IF k > Len(decl) THEN [vars |-> v, threw |-> FALSE, missing |-> ""]
  ELSE LET d == decl[k]
           given == ~IsUndefined(supplied[d.name])
       IN IF Truthy(d.default) /\ ~given
            THEN BindParamsUnchecked(decl, k + 1, supplied,
                                     [v EXCEPT ![d.name] = d.default])
          ELSE IF given
            THEN BindParamsUnchecked(decl, k + 1, supplied,
                                     [v EXCEPT ![d.name] = supplied[d.name]])
          ELSE BindParamsUnchecked(decl, k + 1, supplied, v)

RECURSIVE BindParams(_, _, _, _)
BindParams(decl, k, supplied, v) ==
  IF k > Len(decl) THEN [vars |-> v, threw |-> FALSE, missing |-> ""]
  ELSE LET d == decl[k]
           given == ~IsUndefined(supplied[d.name])
       IN IF d.required /\ ~given
            THEN [vars |-> v, threw |-> TRUE, missing |-> d.name]
          ELSE IF Truthy(d.default) /\ ~given
            THEN BindParams(decl, k + 1, supplied, [v EXCEPT ![d.name] = d.default])
          ELSE IF given
            THEN BindParams(decl, k + 1, supplied,
                            [v EXCEPT ![d.name] = supplied[d.name]])
          ELSE BindParams(decl, k + 1, supplied, v)

\* results of a nested invocation as pushed by the container:
\* results.map((r) => ({ ...r, step })) appended to the container's list
\* faulty variant: the nested results are rebuilt without their stack
TagResultsDropStack(results, step) ==
  [k \in 1..Len(results) |-> [results[k] EXCEPT !.step = step.id, !.stack = <<>>]]
TagResults(results, step) == [k \in 1..Len(results) |-> [results[k] EXCEPT !.step = step.id]]
\* faulty variant: the container keeps only its own results
PushResultsLost(own, results, step) == own
\* faulty variant: the nested results are put in front (unshift)
PushResultsFront(own, results, step) ==
  [k \in 1..Len(results) |-> [results[k] EXCEPT !.step = step.id]] \o own
PushResults(own, results, step) == own \o TagResults(results, step)

\* faulty variant: the included steps run on the script's top-level vars
IncludeScriptOptsTop(f, include) ==
  NewFrame(include.steps, 1, Append(f.encl, f.eno))
\* includeScriptOpts = { ...opts, steps: include.steps }: the vars object
\* of the caller itself
IncludeScriptOpts(f, include) ==
  NewFrame(include.steps, f.vars, Append(f.encl, f.eno))

\* include: params are checked and bound, the step is pushed on the stack
\* and runScriptSteps is called on the included steps with the same opts
IncludeCall ==
  /\ Running /\ Top.pc = "include"
  /\ LET f == Top
         step == CurStep(f)
         include == Includes[step.include]
         b == BindParams(include.params, 1, step.params, varsHeap[f.vars])
     IN /\ varsHeap' = [varsHeap EXCEPT ![f.vars] = b.vars]
        /\ IF b.threw
           THEN /\ frames' = SetTop(Throw(f, ParamRequired(b.missing)))
                /\ log' = Append(log, Ev("raise", f.eno, ParamRequired(b.missing)))
                /\ stack' = stack
           ELSE /\ frames' = Append(SetTop([f EXCEPT !.pc = "includeWait"]),
                                    IncludeScriptOpts(f, include))
                /\ stack' = Append(stack, step.id)
                /\ log' = log
  /\ UNCHANGED << cmp, caller, objects, script, scriptOpts, sessions, outcome, stepResults, inflight,
                  nexec, ndisp >>

(* -------------------------------- loop -------------------------------- *)
\* the item source of a loop: the literal array or the variable named
LoopItems(step, v) == IF step.itemsVar = "" THEN Arr(step.items) ELSE v[step.itemsVar]

\* history: a loop entered, an iteration begun, the for loop left; i is
\* the index and len the length of the item array the loop runs over
LoopEv(e, n, i, len) == [ev |-> e, eno |-> n, info |-> "", i |-> i, len |-> len]

\* faulty variant: the loop always starts at index 0
LoopStartZero(step) == 0
\* let i = step.loop.start ?? 0
LoopStart(step) == step.start

\* loop entry: sub-steps loaded, items resolved, step pushed on the stack
LoopEnter ==
  /\ Running /\ Top.pc = "loop"
  /\ LET f == Top
         step == CurStep(f)
         items == LoopItems(step, varsHeap[f.vars])
     IN IF step.steps = ""
        THEN /\ frames' = SetTop(Throw(f, "loadSubScriptSteps"))
             /\ log' = Append(log, Ev("raise", f.eno, "loadSubScriptSteps"))
             /\ stack' = stack
        ELSE IF ~IsArray(items)
        THEN /\ frames' = SetTop(Throw(f, "loop.items is not an array"))
             /\ log' = Append(log, Ev("raise", f.eno, "loop.items is not an array"))
             /\ stack' = stack
        ELSE /\ frames' = SetTop([f EXCEPT !.pc = "loopNext",
                                           !.i = LoopStart(step),
                                           !.items = items.v])
             /\ stack' = Append(stack, step.id)
             /\ log' = Append(log, LoopEv("loop", f.eno, LoopStart(step),
                                          Len(items.v)))
  /\ UNCHANGED << cmp, caller, objects, script, scriptOpts, varsHeap, sessions, outcome, stepResults,
                  inflight, nexec, ndisp >>

\* faulty variant: the index is bound 1-based
LoopVarsOneBased(v, step, item, i) ==
  LET bound == [v EXCEPT ![step.varName] = Num(item)]
  IN IF step.indexVarName # "" THEN [bound EXCEPT ![step.indexVarName] = Num(i + 1)]
     ELSE bound
\* loopVars = { ...vars, [varName]: item } and the optional index binding
LoopVars(v, step, item, i) ==
  LET bound == [v EXCEPT ![step.varName] = Num(item)]
  IN IF step.indexVarName # "" THEN [bound EXCEPT ![step.indexVarName] = Num(i)]
     ELSE bound

\* faulty variant: vars: loopVars is left out, the iteration runs on the
\* vars of the loop step
SubScriptOptsShared(f, step, loopVars) ==
  NewFrame(step.steps, f.vars, Append(f.encl, f.eno))
\* subScriptOpts = { ...opts, vars: loopVars, steps: subScriptSteps }
SubScriptOpts(f, step, loopVars) ==
  NewFrame(step.steps, loopVars, Append(f.encl, f.eno))

\* faulty variant: the bindings are written into the vars of the loop
\* step as well
ForkVarsInPlace(heap, ref, loopVars) ==
  Append([heap EXCEPT ![ref] = loopVars], loopVars)
\* const loopVars = { ... }: a new object, the vars of the loop step are
\* left as they are
ForkVars(heap, ref, loopVars) == Append(heap, loopVars)

\* one iteration: runScriptSteps is called on the sub-steps with loopVars
LoopIter ==
  /\ Running /\ Top.pc = "loopNext" /\ Top.i < Len(Top.items)
  /\ LET f == Top
         step == CurStep(f)
         loopVars == LoopVars(varsHeap[f.vars], step, f.items[f.i + 1], f.i)
     IN /\ varsHeap' = ForkVars(varsHeap, f.vars, loopVars)
        /\ frames' = Append(SetTop([f EXCEPT !.pc = "loopWait"]),
                            SubScriptOpts(f, step, Len(varsHeap) + 1))
        /\ log' = Append(log, LoopEv("iter", f.eno, f.i, Len(f.items)))
  /\ UNCHANGED << cmp, caller, objects, script, scriptOpts, sessions, stack, outcome, stepResults,
                  inflight, nexec, ndisp >>

\* the for loop over the items is over: stack.pop()
LoopExit ==
  /\ Running /\ Top.pc = "loopNext" /\ Top.i >= Len(Top.items)
  /\ frames' = SetTop([Top EXCEPT !.pc = AfterBranch])
  /\ stack' = SubSeq(stack, 1, Len(stack) - 1)
  /\ log' = Append(log, LoopEv("loopdone", Top.eno, Top.i, Len(Top.items)))
  /\ UNCHANGED << cmp, caller, objects, script, scriptOpts, varsHeap, sessions, outcome, stepResults,
                  inflight, nexec, ndisp >>

(* --------------------- leaving a runScriptSteps ----------------------- *)
\* return stepResults: to runZillaScript, or to the awaiting container,
\* which pushes the results and (include) pops the stack
ReturnResults ==
  /\ Running /\ Top.pc = "begin" /\ Top.idx > Len(StepList(Top.list))
  /\ IF Len(frames) = 1
     THEN /\ outcome' = "returned"
          /\ stepResults' = Top.stepResults
          /\ frames' = <<>>
          /\ stack' = stack
     ELSE LET parent == frames[Len(frames) - 1]
              step == CurStep(parent)
              pushed == PushResults(parent.stepResults, Top.stepResults, step)
              rest == SubSeq(frames, 1, Len(frames) - 2)
          IN /\ outcome' = outcome
             /\ stepResults' = stepResults
             /\ IF parent.pc = "includeWait"
                THEN /\ frames' = Append(rest, [parent EXCEPT !.stepResults = pushed,
                                                              !.pc = AfterBranch])
                     /\ stack' = SubSeq(stack, 1, Len(stack) - 1)
                ELSE /\ frames' = Append(rest, [parent EXCEPT !.stepResults = pushed,
                                                              !.pc = "loopNext",
                                                              !.i = @ + 1])
                     /\ stack' = stack
  /\ UNCHANGED << cmp, caller, objects, script, scriptOpts, varsHeap, sessions, inflight, log, nexec,
                  ndisp >>

\* an error leaves runScriptSteps: it reaches the try of the awaiting
\* container step, or rejects runZillaScript; the invocation's own
\* stepResults are lost with it
Unwind ==
  /\ Running /\ Top.pc = "abort"
  /\ log' = log \o [k \in 1..Len(Top.stepResults) |->
                      Ev("discard", Top.stepResults[k].eno, "")]
               \o (IF Len(frames) = 1 THEN <<>>
                   ELSE << Ev("raise", frames[Len(frames) - 1].eno, Top.err) >>)
  /\ IF Len(frames) = 1
     THEN /\ outcome' = "thrown"
          /\ frames' = <<>>
     ELSE LET parent == frames[Len(frames) - 1]
          IN /\ outcome' = outcome
             /\ frames' = Append(SubSeq(frames, 1, Len(frames) - 2),
                                 Throw(parent, Top.err))
  /\ UNCHANGED << cmp, caller, objects, script, scriptOpts, varsHeap, sessions, stack, stepResults,
                  inflight, nexec, ndisp >>

(* --------------------------- request step ----------------------------- *)
\* sessions[name]: the token stored under a name, "" when there is none
SessionLookup(sess, name) == IF name \in SessNames THEN sess[name] ELSE ""
\* evalTpl(sess, { ...vars, ...sessions }) for a template "{{n}}": a
\* session of that name hides the variable
EvalTpl(tpl, v, sess) ==
  LET n == TplVar(tpl)
  IN IF n \in SessNames /\ sess[n] # "" THEN sess[n]
     ELSE IF n \in VarNames THEN Render(v[n])
     ELSE ""
\* faulty variant: the reference is only looked up as it is written
SessionTokenPlain(step, sess, v) == SessionLookup(sess, step.session)
\* setRequestSession: the token sent for the session the step references:
\* the one stored under the reference, else, for a template, the one
\* stored under the name it renders to
SessionToken(step, sess, v) ==
  LET tok == SessionLookup(sess, step.session)
  IN IF tok # "" THEN tok
     ELSE IF IsTpl(step.session)
     THEN LET realSess == EvalTpl(step.session, v, sess)
          IN IF realSess # "" THEN SessionLookup(sess, realSess) ELSE ""
     ELSE ""
\* why the request cannot be built, "" when it can
RequestError(step, sess, v) ==
  IF step.session = "" THEN ""
  ELSE IF ~ResolveServer(step).session THEN "session not supported"
  ELSE IF SessionToken(step, sess, v) = "" THEN "session not found"
  ELSE ""
\* the request as sent: the server it goes to and the session token in
\* its Cookie or session header, "" when it has none
DispatchEv(n, server, tok) ==
  [ev |-> "dispatch", eno |-> n, info |-> server, tok |-> tok]

\* url, headers, session and body are built and the request is sent
Dispatch ==
  /\ Running /\ Top.pc = "request"
  /\ LET f == Top
         step == CurStep(f)
         why == RequestError(step, sessions, varsHeap[f.vars])
         tok == IF step.session = "" THEN ""
                ELSE SessionToken(step, sessions, varsHeap[f.vars])
     IN IF why # ""
        THEN /\ frames' = SetTop(Throw(f, why))
             /\ log' = Append(log, Ev("raise", f.eno, why))
             /\ UNCHANGED << inflight, ndisp >>
        ELSE /\ frames' = SetTop([f EXCEPT !.pc = After("request"),
                                           !.dno = ndisp + 1])
             /\ inflight' = inflight + 1
             /\ ndisp' = ndisp + 1
             /\ log' = Append(log, DispatchEv(f.eno, ResolveServer(step).name, tok))
  /\ UNCHANGED << cmp, caller, objects, script, scriptOpts, varsHeap, sessions, stack, outcome,
                  stepResults, nexec >>

\* requests still in flight once makeRequest has settled
Settled(n) == n - 1

\* makeRequest settles: a response arrives or the transport fails
Response ==
  /\ Running /\ Top.pc = "awaitResponse"
  /\ inflight' = Settled(inflight)
  /\ \/ \E r \in (IF CurStep(Top).id = "relogin" THEN ResponsesAgain
                  ELSE Responses) :
          /\ frames' = SetTop([Top EXCEPT !.pc = After("awaitResponse"), !.res = r])
          /\ log' = Append(log, Ev("response", Top.eno, ""))
     \/ /\ frames' = SetTop(Throw(Top, "fetch failed"))
        /\ log' = Append(log, Ev("raise", Top.eno, "fetch failed"))
  /\ UNCHANGED << cmp, caller, objects, script, scriptOpts, varsHeap, sessions, stack, outcome,
                  stepResults, nexec, ndisp >>

\* history: a session capture ran for a name, with the token found
SessEv(n, name, tok) ==
  [ev |-> "captureSession", eno |-> n, info |-> "", name |-> name, tok |-> tok]

\* faulty variant: a name that has a token keeps it
StoreSessionOnce(sess, name, tok) ==
  IF sess[name] = "" THEN [sess EXCEPT ![name] = tok] ELSE sess
\* sessions[responseSession.name] = tok
StoreSession(sess, name, tok) == [sess EXCEPT ![name] = tok]

\* assignResponseSession: the token is stored when the response carries one
CaptureSession ==
  /\ Running /\ Top.pc = "captureSession"
  /\ LET f == Top
         step == CurStep(f)
     IN IF step.capSession = ""
        THEN /\ frames' = SetTop([f EXCEPT !.pc = After("captureSession")])
             /\ UNCHANGED << sessions, log >>
        ELSE IF ~ResolveServer(step).session
        THEN /\ frames' = SetTop(Throw(f, "session not supported"))
             /\ log' = Append(log, Ev("raise", f.eno, "session not supported"))
             /\ sessions' = sessions
        ELSE /\ frames' = SetTop([f EXCEPT !.pc = After("captureSession")])
             /\ sessions' = IF f.res.tok # ""
                            THEN StoreSession(sessions, step.capSession, f.res.tok)
                            ELSE sessions
             /\ log' = Append(log, SessEv(f.eno, step.capSession, f.res.tok))
  /\ UNCHANGED << cmp, caller, objects, script, scriptOpts, varsHeap, stack, outcome, stepResults,
                  inflight, nexec, ndisp >>

\* the order in which Object.entries lists the captures of a step
CaptureOrder == << "item", "idx", "list", "p" >>
\* headers.find((h) => h.name === name)?.value ?? null: the value of the
\* first header of that very name, "" for null
FirstIndex(headers, name) ==
  CHOOSE k \in 1..Len(headers) :
    headers[k].name = name /\ \A j \in 1..(k - 1) : headers[j].name # name
firstHeader(headers, name) ==
  IF \E k \in 1..Len(headers) : headers[k].name = name
  THEN headers[FirstIndex(headers, name)].value
  ELSE ""
\* raw.match(new RegExp(`${name}=([^;]+)`)) on the first Set-Cookie
\* header: the value the cookie has there, "" when it is not there
CookieValues == {"c1", "c2"}
CookieMatch(raw, name) ==
  IF \E c \in CookieValues : raw = name \o "=" \o c
  THEN CHOOSE c \in CookieValues : raw = name \o "=" \o c
  ELSE ""
\* a string or, for "", null
StrOrNull(s) == IF s = "" THEN Null ELSE Str(s)
UndefinedVariable == "extract: error=undefined_variable"
InvalidCaptureSource == "extract: error=invalid_capture_source"
\* faulty variant: an assign of an undefined variable yields undefined
ExtractLenient(kind, step, res, v) ==
  CASE kind = "body" -> [val |-> res.body, err |-> ""]
    [] kind = "assign" -> [val |-> v[step.assignFrom], err |-> ""]
    [] kind = "header" ->
         [val |-> StrOrNull(firstHeader(res.headers, step.capName)), err |-> ""]
    [] kind = "cookie" ->
         [val |-> StrOrNull(CookieMatch(firstHeader(res.headers, "set-cookie"),
                                        step.capName)),
          err |-> ""]
    [] OTHER -> [val |-> Undef, err |-> InvalidCaptureSource]
\* extract: the value a capture source yields, or the error it throws
Extract(kind, step, res, v) ==
  CASE kind = "body" -> [val |-> res.body, err |-> ""]
    [] kind = "assign" ->
         IF IsUndefined(v[step.assignFrom])
         THEN [val |-> Undef, err |-> UndefinedVariable]
         ELSE [val |-> v[step.assignFrom], err |-> ""]
    [] kind = "header" ->
         [val |-> StrOrNull(firstHeader(res.headers, step.capName)), err |-> ""]
    [] kind = "cookie" ->
         [val |-> StrOrNull(CookieMatch(firstHeader(res.headers, "set-cookie"),
                                        step.capName)),
          err |-> ""]
    [] OTHER -> [val |-> Undef, err |-> InvalidCaptureSource]
\* extract for each capture in turn, each value written before the next
\* capture is looked at; the first extract that throws ends the loop
RECURSIVE CaptureAll(_, _, _, _)
CaptureAll(step, k, res, v) ==
  IF k > Len(CaptureOrder) THEN [vars |-> v, threw |-> FALSE, err |-> ""]
  ELSE LET n == CaptureOrder[k]
           x == Extract(step.capture[n], step, res, v)
       IN IF step.capture[n] = "none" THEN CaptureAll(step, k + 1, res, v)
          ELSE IF x.err # "" THEN [vars |-> v, threw |-> TRUE, err |-> x.err]
          ELSE CaptureAll(step, k + 1, res, [v EXCEPT ![n] = x.val])
HasCapture(step) == \E n \in VarNames : step.capture[n] # "none"

CaptureVars ==
  /\ Running /\ Top.pc = "captureVars"
  /\ LET f == Top
         step == CurStep(f)
         c == CaptureAll(step, 1, f.res, varsHeap[f.vars])
     IN /\ varsHeap' = [varsHeap EXCEPT ![f.vars] = c.vars]
        /\ IF c.threw
           THEN /\ frames' = SetTop(Throw(f, c.err))
                /\ log' = Append(log, Ev("raise", f.eno, c.err))
           ELSE /\ frames' = SetTop([f EXCEPT !.pc = After("captureVars")])
                /\ log' = IF HasCapture(step)
                          THEN Append(log, Ev("captureVars", f.eno, ""))
                          ELSE log
  /\ UNCHANGED << cmp, caller, objects, script, scriptOpts, sessions, stack, outcome, stepResults,
                  inflight, nexec, ndisp >>

(* ----------------------------- handlers ------------------------------- *)
\* the response a handler hands back
HandlerResult(o, res) ==
  CASE o = "replace" -> ReplacedRes
    [] o = "undefined" -> NoRes
    [] OTHER -> res

\* varsForHandler = { ...vars, ...sessions, res, body }: its variable part
VarsForHandler(v) == v
\* origKeys: the keys the scope has before the handler is called
OrigKeys(scope) == {n \in VarNames : ~IsUndefined(scope[n])}
\* the scope as the handler function leaves it
HandlerScope(o, scope) ==
  IF o = "assign"
  THEN [scope EXCEPT !["p"] = HandlerAssigned, !["idx"] = HandlerAssigned]
  ELSE scope
\* the objects as the handler function leaves them: the scope is a shallow
\* copy, the object scope.p refers to is the one the live vars refer to
HandlerObjects(o, scope, objs) ==
  IF o = "mutate" /\ IsObject(scope["p"])
  THEN [objs EXCEPT ![scope["p"].v[1]]["n"] = HandlerWritten]
  ELSE objs
\* faulty variant: every key of the scope is written back
MergeAllKeys(v, scope, origKeys) == scope
\* the keys the scope did not have before the call are copied into vars
MergeNewKeys(v, scope, origKeys) ==
  [n \in VarNames |-> IF n \notin origKeys THEN scope[n] ELSE v[n]]

\* for (const stepHandler of step.handlers): the h-th handler of the step
HandlerAt(step, h) == step.handlers[h]
\* faulty variant: the value the handler returns is dropped
NextResKept(res, returned) == res
\* res = await initHandler.func(res, ...): the response from then on
NextRes(res, returned) == returned
\* a handler is called with a response, a handler has returned one
HandlerEv(e, n, name, res) == [ev |-> e, eno |-> n, info |-> "", name |-> name, res |-> res]

\* handlers[hName] is undefined: reading initHandler.args is a TypeError
HandlerUndefined == "Cannot read properties of undefined (reading 'args')"

\* runStepHandlers, one handler, up to the call: the delay is waited for,
\* the arguments are evaluated and the handler function is called with the
\* current response
HandlerCall ==
  /\ Running /\ Top.pc = "handlers" /\ Top.h <= Len(CurStep(Top).handlers)
  /\ ~Top.called
  /\ IF HandlerAt(CurStep(Top), Top.h) \in RegisteredHandlers
     THEN /\ frames' = SetTop([Top EXCEPT !.called = TRUE])
          /\ log' = Append(log, HandlerEv("hcall", Top.eno,
                                          HandlerAt(CurStep(Top), Top.h),
                                          Top.res))
     ELSE /\ frames' = SetTop(Throw(Top, HandlerUndefined))
          /\ log' = Append(log, Ev("raise", Top.eno, HandlerUndefined))
  /\ UNCHANGED << cmp, caller, objects, script, scriptOpts, varsHeap, sessions, stack, outcome,
                  stepResults, inflight, nexec, ndisp >>

\* runStepHandlers, one handler, from the return of the awaited handler
\* function: its return value becomes the response and the keys it added
\* to its scope are merged into vars
RunHandler ==
  /\ Running /\ Top.pc = "handlers" /\ Top.h <= Len(CurStep(Top).handlers)
  /\ Top.called
  /\ \E o \in HandlerOutcomes :
       LET varsForHandler == VarsForHandler(varsHeap[Top.vars])
           origKeys == OrigKeys(varsForHandler)
           scope == HandlerScope(o, varsForHandler)
       IN IF o = "throw"
          THEN /\ frames' = SetTop(Throw([Top EXCEPT !.called = FALSE],
                                          "handler failed"))
               /\ log' = Append(log, Ev("raise", Top.eno, "handler failed"))
               /\ UNCHANGED << varsHeap, objects >>
          ELSE /\ frames' = SetTop([Top EXCEPT
                                 !.res = NextRes(@, HandlerResult(o, @)),
                                 !.h = @ + 1, !.called = FALSE])
               /\ objects' = HandlerObjects(o, varsForHandler, objects)
               /\ varsHeap' = [varsHeap EXCEPT ![Top.vars] =
                                 MergeNewKeys(@, scope, origKeys)]
               /\ log' = log \o << HandlerEv("hreturn", Top.eno,
                                              HandlerAt(CurStep(Top), Top.h),
                                              HandlerResult(o, Top.res)),
                                    Ev("handler", Top.eno, o) >>
  /\ UNCHANGED << cmp, caller, script, scriptOpts, sessions, stack, outcome, stepResults,
                  inflight, nexec, ndisp >>

\* runStepHandlers returns the response once every handler has run
HandlersDone ==
  /\ Running /\ Top.pc = "handlers" /\ Top.h > Len(CurStep(Top).handlers)
  /\ frames' = SetTop([Top EXCEPT !.pc = After("handlers")])
  /\ UNCHANGED << cmp, caller, objects, script, scriptOpts, varsHeap, sessions, stack, outcome,
                  stepResults, inflight, log, nexec, ndisp >>

(* ---------------------------- validation ------------------------------ *)
ClassNames == << "1xx", "2xx", "3xx", "4xx", "5xx" >>
\* `${Math.floor(status / 100)}xx`
StatusClassOf(status) == ToString(status \div 100) \o "xx"
\* if (expectedStatus): a status was given and it is not 0
ExpectedStatusTruthy(step) == step.expStatus # NoStatus /\ step.expStatus # 0
\* the status check: the exact status if the step gives a truthy one, else
\* the class, "2xx" when the step gives none
StatusPass(step, res) ==
  IF ExpectedStatusTruthy(step) THEN res.status = step.expStatus
  ELSE StatusClassOf(res.status) = (IF step.expClass = "" THEN "2xx" ELSE step.expClass)

Detail(name, result, error) == [name |-> name, result |-> result, error |-> error]
\* faulty variant: a check whose rendering throws is recorded as passed
CheckDetailThrowPasses(name, o) ==
  Detail(name, o # "false", IF o = "throw" THEN "threw" ELSE "")
\* one detail per custom check, named after its group; a check whose
\* rendering throws is recorded as failed with the error message
CheckDetail(name, o) == Detail(name, o = "true", IF o = "throw" THEN "threw" ELSE "")
AllTrue(details) == \A k \in 1..Len(details) : details[k].result

\* the check strings of a step in declaration order, each with its group
RECURSIVE FlatChecks(_)
FlatChecks(groups) ==
  IF groups = <<>> THEN <<>>
  ELSE [k \in 1..groups[1].n |-> groups[1]] \o FlatChecks(Tail(groups))
\* how many checks are rendered: all of them, unless evalTpl(validation.id)
\* throws, which is outside the try around the rendering of the check
Rendered(flat, outs) ==
  IF \E k \in 1..Len(flat) : flat[k].idThrows
  THEN (CHOOSE k \in 1..Len(flat) :
          flat[k].idThrows /\ \A j \in 1..(k - 1) : ~flat[j].idThrows) - 1
  ELSE Len(flat)

\* faulty variant: a failed validation is thrown whatever the flag says
ValidationThrowsAlways(overall) == ~overall
\* a failed validation is thrown unless continueOnInvalid is set
ValidationThrows(overall) == ~overall /\ ~scriptOpts.continueOnInvalid

\* status check, then every custom check; overall &&= each outcome
Validate ==
  /\ Running /\ Top.pc = "validate"
  /\ \E outs \in [1..Len(FlatChecks(CurStep(Top).validate)) -> CheckOutcomes] :
       LET f == Top
           step == CurStep(f)
           flat == FlatChecks(step.validate)
           n == Rendered(flat, outs)
           statusPass == f.res.some => StatusPass(step, f.res)
           status == IF f.res.some
                     THEN << Detail("status", statusPass, "") >>
                     ELSE <<>>
           checks == [k \in 1..n |-> CheckDetail(flat[k].id, outs[k])]
           details == f.checkDetails \o status \o checks
           overall == /\ f.overall /\ statusPass
                      /\ \A k \in 1..n : outs[k] = "true"
           g == [f EXCEPT !.checkDetails = details, !.overall = overall]
       IN IF n < Len(flat)
          THEN /\ frames' = SetTop(Throw(g, "validation.id"))
               /\ log' = Append(log, Ev("raise", f.eno, "validation.id"))
          ELSE IF ValidationThrows(overall)
          THEN /\ frames' = SetTop(Throw(g, "validation failed"))
               /\ log' = log \o << Ev("validate", f.eno, "fail"),
                                   Ev("raise", f.eno, "validation failed") >>
          ELSE /\ frames' = SetTop([g EXCEPT !.pc = After("validate")])
               /\ log' = Append(log, Ev("validate", f.eno,
                                         IF overall THEN "pass" ELSE "fail"))
  /\ UNCHANGED << cmp, caller, objects, script, scriptOpts, varsHeap, sessions, stack, outcome,
                  stepResults, inflight, nexec, ndisp >>

(* ------------------------------ results ------------------------------- *)
\* a vars object read through its references: every object replaced by
\* what it holds
Deep(v, objs) ==
  [n \in VarNames |-> IF IsObject(v[n]) THEN Obj(objs[v[n].v[1]]) ELSE v[n]]

\* a ZillaStepResult; origin, eno, dno, encl and recorded are history
\* annotations: the step that produced it, its execution and dispatch
\* numbers, the executions of the containers around it, and the fields
\* as they are at the moment of recording, vars read through
StepResult(f, step, status, validation) ==
  [ step |-> step.id, stack |-> stack, status |-> status,
    validation |-> validation, vars |-> varsHeap[f.vars], sessions |-> sessions,
    origin |-> step.id, eno |-> f.eno, dno |-> f.dno, encl |-> f.encl,
    recorded |-> [ step |-> step.id, stack |-> stack, status |-> status,
                   validation |-> validation, vars |-> varsHeap[f.vars],
                   deep |-> Deep(varsHeap[f.vars], objects),
                   sessions |-> sessions ] ]

\* status recorded for a step that completed
RecordedStatus(res) == IF res.some THEN res.status ELSE NoStatus

\* the step result is assembled and pushed; on to the next step
Record ==
  /\ Running /\ Top.pc = "record"
  /\ LET f == Top
         step == CurStep(f)
         validation == [name |-> "combined-validations", result |-> f.overall,
                        details |-> f.checkDetails]
         r == StepResult(f, step, RecordedStatus(f.res), validation)
     IN frames' = SetTop([f EXCEPT !.stepResults = Append(@, r),
                                   !.idx = @ + 1, !.pc = "begin"])
  /\ log' = Append(log, Ev("record", Top.eno, ""))
  /\ UNCHANGED << cmp, caller, objects, script, scriptOpts, varsHeap, sessions, stack, outcome,
                  stepResults, inflight, nexec, ndisp >>

\* faulty variant: the catch never rethrows
CatchRethrowsNever == FALSE
\* faulty variant: the catch always rethrows
CatchRethrowsAlways == TRUE
\* the catch rethrows unless continueOnError is set
CatchRethrows == ~scriptOpts.continueOnError

\* faulty variant: the catch puts the vars back as the step found them
CatchVarsRestored(heap, f) == [heap EXCEPT ![f.vars] = f.vars0]
\* the catch block reads vars for the snapshot and writes nothing to it
CatchVars(heap, f) == heap

\* catch: rethrow, or push a result with status 0 and a "runtime" detail
Catch ==
  /\ Running /\ Top.pc = "catch"
  /\ LET f == Top
         step == CurStep(f)
         details == Append(f.checkDetails, Detail("runtime", FALSE, f.err))
         validation == [name |-> "error", result |-> FALSE, details |-> details]
         r == StepResult(f, step, 0, validation)
     IN IF CatchRethrows
        THEN /\ frames' = SetTop([f EXCEPT !.pc = "abort"])
             /\ log' = Append(log, Ev("rethrow", f.eno, f.err))
             /\ varsHeap' = varsHeap
        ELSE /\ frames' = SetTop([f EXCEPT !.checkDetails = details,
                                           !.stepResults = Append(@, r),
                                           !.idx = @ + 1, !.pc = "begin"])
             /\ log' = Append(log, Ev("error", f.eno, f.err))
             /\ varsHeap' = CatchVars(varsHeap, f)
  /\ UNCHANGED << cmp, caller, objects, script, scriptOpts, sessions, stack, outcome,
                  stepResults, inflight, nexec, ndisp >>

(* --------------------------- specification ---------------------------- *)
Next ==
  \/ ProcessSteps
  \/ BeginStep
  \/ Prepare
  \/ IncludeCall
  \/ LoopEnter
  \/ LoopIter
  \/ LoopExit
  \/ ReturnResults
  \/ Unwind
  \/ Dispatch
  \/ Response
  \/ CaptureSession
  \/ CaptureVars
  \/ HandlerCall
  \/ RunHandler
  \/ HandlersDone
  \/ Validate
  \/ Record
  \/ Catch

Spec == Init /\ [][Next]_vars

(* ---------------- specification of the template helpers --------------- *)
\* a validation check on its own: the operands are drawn, the run is over
InitHelpers ==
  /\ script = <<>>
  /\ scriptOpts = [continueOnInvalid |-> FALSE, continueOnError |-> FALSE]
  /\ frames = <<>>
  /\ varsHeap = << NoVars >>
  /\ objects = LiteralObjects
  /\ sessions = NoSessions
  /\ stack = <<>>
  /\ outcome = "returned"
  /\ stepResults = <<>>
  /\ inflight = 0
  /\ log = <<>>
  /\ nexec = 0
  /\ ndisp = 0
  /\ caller = PlainCaller
  /\ \E p \in OperandPairs :
       cmp = [NoCmp EXCEPT !.phase = "args", !.l = p[1], !.r = p[2]]

\* one expr of validation.check: the template {{compare l op r}} is
\* rendered, the helper runs, the entry of checkDetails is pushed
RenderCheck ==
  /\ cmp.phase = "args"
  /\ \E op \in CompareOps :
       LET out == Compare(cmp.l, op, cmp.r)
           rendered == IF out.threw THEN "" ELSE IF out.val THEN "true" ELSE "false"
           pass == ~out.threw /\ rendered = "true"
       IN  cmp' = [cmp EXCEPT !.phase = "checked", !.op = op, !.out = out,
                              !.detail = [rendered |-> rendered, result |-> pass,
                                          error |-> out.err],
                              !.overall = @ /\ pass]
  /\ UNCHANGED << script, scriptOpts, frames, varsHeap, objects, sessions, stack,
                  outcome, stepResults, inflight, log, nexec, ndisp, caller >>

NextHelpers == RenderCheck

SpecHelpers == InitHelpers /\ [][NextHelpers]_vars

TypeOK ==
  /\ outcome \in {"running", "returned", "thrown"}
  /\ inflight \in 0..1
  /\ Len(stack) <= 4

(* ------------------- specification of runZillaScript ------------------ *)
\* `script=${script.script} has no servers defined in init`
NoServersDefined == "has no servers defined in init"
\* the TypeError of servers[0].name when servers is empty
NameOfUndefined == "Cannot read properties of undefined (reading 'name')"

\* the call of runZillaScript, before its first statement
InitCaller ==
  /\ script \in Scripts
  /\ scriptOpts \in [continueOnInvalid : BOOLEAN, continueOnError : BOOLEAN]
  /\ frames = <<>>
  /\ varsHeap = << NoVars >>
  /\ objects = LiteralObjects
  /\ sessions = NoSessions
  /\ stack = <<>>
  /\ outcome = "starting"
  /\ stepResults = <<>>
  /\ inflight = 0
  /\ log = <<>>
  /\ nexec = 0
  /\ ndisp = 0
  /\ cmp = NoCmp
  /\ caller \in Callers

\* runZillaScript up to its call of runScriptSteps: the init blocks are
\* merged, servers is required, vars and sessions are set up, the servers
\* are named and the first becomes the default
Start ==
  /\ outcome = "starting"
  /\ IF caller.servers = "absent"
     THEN /\ outcome' = "thrown"
          /\ log' = << Ev("raise", 0, NoServersDefined) >>
          /\ frames' = frames
     ELSE IF caller.servers = "empty"
     THEN /\ outcome' = "thrown"
          /\ log' = << Ev("raise", 0, NameOfUndefined) >>
          /\ frames' = frames
     ELSE /\ outcome' = "running"
          /\ log' = log
          /\ frames' = << NewFrame("main", 1, <<>>) >>
  /\ UNCHANGED << script, scriptOpts, varsHeap, objects, sessions, stack,
                  stepResults, inflight, nexec, ndisp, cmp, caller >>

NextCaller == Start \/ Next

SpecCaller == InitCaller /\ [][NextCaller]_vars

(* ------------------------ reading the history ------------------------- *)
Returned == outcome = "returned"
\* the step an execution number belongs to
ExecId(e) == log[CHOOSE k \in 1..Len(log) : log[k].ev = "begin" /\ log[k].eno = e].info
IsContainer(id) == Library[id].kind \in {"loop", "include"}
HasEv(ev, e) == \E k \in 1..Len(log) : log[k].ev = ev /\ log[k].eno = e
\* how many entries of a result list an execution has
Entries(rs, e) == Cardinality({k \in 1..Len(rs) : rs[k].eno = e})
\* the recording of e took place and was not lost with its step list
Kept(e) == (HasEv("record", e) \/ HasEv("error", e)) /\ ~HasEv("discard", e)
InSeq(x, q) == \E k \in 1..Len(q) : q[k] = x
\* a step failed: an error was raised or a validation came out false
IsFailure(x) == x.ev = "raise" \/ (x.ev = "validate" /\ x.info = "fail")
FlagsUnset == ~scriptOpts.continueOnInvalid /\ ~scriptOpts.continueOnError

(* ------------------------------- C1 ----------------------------------- *)
\* C1 as stated: after a run that returns, stepResults has exactly one
\* entry for each executed leaf request step and no entry produced by a
\* loop or include step itself.
C1_Original ==
  Returned =>
    /\ \A k \in 1..Len(stepResults) : ~IsContainer(stepResults[k].origin)
    /\ \A e \in 1..nexec : ~IsContainer(ExecId(e)) => Entries(stepResults, e) = 1

\* C1 amended: after a run that returns, every executed step, leaf request,
\* loop or include alike, whose recording was not lost with a step list
\* that an error aborted has exactly one entry of its own, no other step
\* has any, and the entry of a loop or include step comes after the
\* entries of its descendants.
C1_OneEntryPerStep ==
  Returned =>
    /\ \A e \in 1..nexec : Entries(stepResults, e) = (IF Kept(e) THEN 1 ELSE 0)
    /\ \A j, k \in 1..Len(stepResults) :
         InSeq(stepResults[j].eno, stepResults[k].encl) => k < j

\* a run returned with a loop's own entry behind the entries of its items
C1_Witness ==
  /\ Returned
  /\ \E j, k \in 1..Len(stepResults) :
       /\ k < j
       /\ stepResults[j].origin = "loopLit"
       /\ stepResults[j].status = NoStatus
       /\ InSeq(stepResults[j].eno, stepResults[k].encl)
       /\ stepResults[k].origin = "get"

(* ------------------------------- C2 ----------------------------------- *)
\* C2: with both continuation flags unset, once a step has failed its
\* validation or raised an error no step is begun and no request is
\* dispatched any more, the error only travels outwards, and the run does
\* not return: it throws.
C2_StopAtFirstFailure ==
  FlagsUnset =>
    /\ \A j, k \in 1..Len(log) :
         (j < k /\ IsFailure(log[j])) => log[k].ev \in {"raise", "rethrow", "discard"}
    /\ (\E j \in 1..Len(log) : IsFailure(log[j])) =>
         /\ ~Returned
         /\ (frames = <<>> => outcome = "thrown")

\* the first of two steps failed, the run threw, the second never began
C2_Witness ==
  /\ FlagsUnset
  /\ outcome = "thrown"
  /\ Len(script) = 2
  /\ nexec = 1
  /\ ndisp = 1
  /\ \E j \in 1..Len(log) : log[j].ev = "validate" /\ log[j].info = "fail"

(* ------------------------------- C3 ----------------------------------- *)
\* C3: with continueOnInvalid set, a failed status check or custom check
\* raises no error; the step is recorded with the status of its response
\* and validation.result = false, and the run goes on to the next step.
C3_Step ==
  scriptOpts.continueOnInvalid =>
    /\ \A k \in 1..Len(log) : ~(log[k].ev = "raise" /\ log[k].info = "validation failed")
    /\ (Running /\ Top.pc = "record" /\ ~Top.overall) =>
         LET f == Top
             g == frames'[Len(frames)]
             r == g.stepResults[Len(g.stepResults)]
         IN /\ Len(frames') = Len(frames)
            /\ Len(g.stepResults) = Len(f.stepResults) + 1
            /\ r.eno = f.eno
            /\ r.status = (IF f.res.some THEN f.res.status ELSE NoStatus)
            /\ r.validation.result = FALSE
            /\ g.pc = "begin" /\ g.idx = f.idx + 1
            /\ outcome' = "running"
C3_ContinueOnInvalid == [][C3_Step]_vars

\* a step answered 404 where 2xx was expected was recorded as failed with
\* status 404 and the next step ran and was recorded after it
C3_Witness ==
  /\ Returned
  /\ scriptOpts.continueOnInvalid
  /\ \E k \in 1..Len(stepResults) :
       /\ k < Len(stepResults)
       /\ stepResults[k].origin = "get"
       /\ stepResults[k].status = 404
       /\ ~stepResults[k].validation.result
       /\ stepResults[k + 1].eno = stepResults[k].eno + 1

(* ------------------------------- C4 ----------------------------------- *)
\* the entry a caught error leaves: status 0, validation.result false and
\* a last detail named "runtime" that carries the message
IsRuntimeEntry(r, msg) ==
  /\ r.status = 0
  /\ r.validation.result = FALSE
  /\ Len(r.validation.details) >= 1
  /\ LET d == r.validation.details[Len(r.validation.details)]
     IN d.name = "runtime" /\ d.result = FALSE /\ d.error = msg

\* every result list of the run: those of the active invocations and the
\* one runZillaScript returned
ResultLists == {frames[k].stepResults : k \in 1..Len(frames)} \cup {stepResults}

\* C4: with continueOnError set, an error a step raises in any phase of
\* its execution is recorded at once as one status-0 result with a
\* "runtime" detail carrying the message, and the run goes on: it never
\* throws because of a step's error.
C4_Claim ==
  scriptOpts.continueOnError =>
    /\ \A k \in 1..Len(log) :
         (log[k].ev = "raise" /\ log[k].eno > 0 /\ k < Len(log)) =>
           log[k + 1] = Ev("error", log[k].eno, log[k].info)
    /\ \A k \in 1..Len(log) :
         log[k].ev = "error" =>
           \E rs \in ResultLists :
             \/ HasEv("discard", log[k].eno)
             \/ /\ Entries(rs, log[k].eno) = 1
                /\ \A j \in 1..Len(rs) :
                     rs[j].eno = log[k].eno => IsRuntimeEntry(rs[j], log[k].info)
    /\ outcome = "thrown" =>
         \A k \in 1..Len(log) : log[k].ev = "raise" => log[k].eno = 0

(* ------------------------------- C5 ----------------------------------- *)
\* C5: with continueOnInvalid unset, a failed validation makes the run
\* throw whether or not continueOnError is set: after it no step is begun,
\* no request is dispatched, nothing is recorded and the run does not
\* return.
C5_Claim ==
  ~scriptOpts.continueOnInvalid =>
    /\ \A j, k \in 1..Len(log) :
         (j < k /\ log[j].ev = "validate" /\ log[j].info = "fail") =>
           log[k].ev \in {"raise", "rethrow", "discard"}
    /\ (\E j \in 1..Len(log) : log[j].ev = "validate" /\ log[j].info = "fail") =>
         ~Returned

(* ------------------------------- C6 ----------------------------------- *)
StructuralErrors ==
  { "processStep", "server not found", "loop.items is not an array",
    "loadSubScriptSteps" } \cup {ParamRequired(n) : n \in VarNames}
IsStructural(x) == x.ev = "raise" /\ x.info \in StructuralErrors

\* C6 as stated: a structural error always makes the run throw; whatever
\* the flags, it is never recorded as a result and the run never returns.
C6_Original ==
  (\E j \in 1..Len(log) : IsStructural(log[j])) =>
    /\ ~Returned
    /\ \A k \in 1..Len(log) : ~(log[k].ev = "error" /\ log[k].info \in StructuralErrors)

\* C6 amended: with continueOnError unset a structural error makes the run
\* throw whatever continueOnInvalid is; a malformed step found by
\* processStep in the top-level list makes the run throw whatever the
\* flags, before any step begins; with continueOnError set every other
\* structural error (missing server, loop items not an array, missing
\* required include param, malformed step inside a loop or include body)
\* is recorded as a status-0 "runtime" result of the step concerned and
\* the run goes on.
C6_Structural ==
  /\ ~scriptOpts.continueOnError =>
       /\ \A j, k \in 1..Len(log) :
            (j < k /\ IsStructural(log[j])) => log[k].ev \in {"raise", "rethrow", "discard"}
       /\ (\E j \in 1..Len(log) : IsStructural(log[j])) => ~Returned
  /\ (Len(log) >= 1 /\ log[1] = Ev("raise", 0, "processStep")) =>
       /\ ~Returned /\ nexec = 0 /\ ndisp = 0
       /\ (frames = <<>> => outcome = "thrown")
  /\ scriptOpts.continueOnError =>
       /\ \A k \in 1..Len(log) :
            (IsStructural(log[k]) /\ log[k].eno > 0 /\ k < Len(log)) =>
              log[k + 1] = Ev("error", log[k].eno, log[k].info)
       /\ \A k \in 1..Len(log) :
            (log[k].ev = "error" /\ log[k].info \in StructuralErrors) =>
              \E rs \in ResultLists :
                \/ HasEv("discard", log[k].eno)
                \/ /\ Entries(rs, log[k].eno) = 1
                   /\ \A j \in 1..Len(rs) :
                        rs[j].eno = log[k].eno => IsRuntimeEntry(rs[j], log[k].info)

\* with continueOnError set, a step naming an undeclared server was
\* recorded as a runtime result and the next step ran and the run returned
C6_Witness ==
  /\ Returned
  /\ Len(stepResults) = 2
  /\ stepResults[1].origin = "ghostSrv"
  /\ IsRuntimeEntry(stepResults[1], "server not found")
  /\ stepResults[2].status = 200

(* ------------------------------- C7 ----------------------------------- *)
PhaseEvents == { "dispatch", "response", "captureSession", "captureVars",
                 "handler", "validate", "record" }
IsPhaseOf(x, e) == x.eno = e /\ x.ev \in PhaseEvents
\* what a step execution did, in the order it did it
RECURSIVE PhasesFrom(_, _)
PhasesFrom(e, k) ==
  IF k > Len(log) THEN <<>>
  ELSE IF IsPhaseOf(log[k], e) THEN << log[k].ev >> \o PhasesFrom(e, k + 1)
  ELSE PhasesFrom(e, k + 1)
PhasesOf(e) == PhasesFrom(e, 1)
\* the phases the step declares, in the order C7 gives
ExpectedPhases(step) ==
  << "dispatch", "response" >>
    \o (IF step.capSession # "" THEN << "captureSession" >> ELSE <<>>)
    \o (IF HasCapture(step) THEN << "captureVars" >> ELSE <<>>)
    \o [k \in 1..Len(step.handlers) |-> "handler"]
    \o << "validate", "record" >>
IsPrefix(a, b) == Len(a) <= Len(b) /\ SubSeq(b, 1, Len(a)) = a

\* C7: in every leaf request step the request is dispatched, then the
\* session is captured, then the variables, then every handler of the
\* step runs, then the checks are evaluated, and only then is the result
\* recorded: what a step has done so far is always a prefix of that
\* sequence, and all of it once the result is recorded.
C7_PhaseOrder ==
  \A e \in 1..nexec :
    LET step == Library[ExecId(e)]
    IN step.kind = "request" =>
         /\ IsPrefix(PhasesOf(e), ExpectedPhases(step))
         /\ HasEv("record", e) => PhasesOf(e) = ExpectedPhases(step)

\* a step with session capture, variable capture, two handlers and a
\* check went through all its phases and was recorded
C7_Witness ==
  \E e \in 1..nexec :
    /\ ExecId(e) = "full"
    /\ HasEv("record", e)
    /\ Len(PhasesOf(e)) = 8

(* ------------------------------- C8 ----------------------------------- *)
\* the events that end a step execution
EndsExec(x) ==
  \/ x.ev \in {"record", "error", "rethrow"}
  \/ (x.ev = "raise" /\ x.info = "stepName")
DoneBefore(d, k) == \E j \in 1..(k - 1) : log[j].eno = d /\ EndsExec(log[j])

\* C8: at most one request is in flight, and only while the one executing
\* step awaits it; every invocation but the innermost is waiting for a
\* nested one; what a leaf step does is not interleaved with anything
\* else; and when a step begins or dispatches, every step begun before it
\* has run to completion or is a loop or include around it.
C8_Sequential ==
  /\ inflight <= 1
  /\ inflight = 1 => (Running /\ Top.pc = "awaitResponse")
  /\ \A k \in 1..(Len(frames) - 1) : frames[k].pc \in {"includeWait", "loopWait"}
  /\ \A k \in 1..(Len(log) - 1) :
       (/\ log[k].eno > 0
        /\ log[k].ev # "discard"
        /\ ~IsContainer(ExecId(log[k].eno))
        /\ ~EndsExec(log[k])) => log[k + 1].eno = log[k].eno
  /\ \A k \in 1..Len(log) :
       log[k].ev \in {"begin", "dispatch"} =>
         \A d \in 1..(log[k].eno - 1) : IsContainer(ExecId(d)) \/ DoneBefore(d, k)

\* the second request of a run is in flight, inside a loop iteration,
\* after the first step was recorded
C8_Witness ==
  /\ inflight = 1
  /\ ndisp = 2
  /\ Len(frames) = 2
  /\ HasEv("record", 1)

(* ------------------------------- C9 ----------------------------------- *)
LastOf(q) == q[Len(q)]
\* C9: every result list is in execution order: entries of dispatched
\* requests are in dispatch order, the entries made inside one loop or
\* include execution are contiguous (so they lie between the results of
\* the steps before and after it), and the entries of a loop's iterations
\* are in index order.
C9_ExecutionOrder ==
  \A rs \in ResultLists :
    /\ \A i, j \in 1..Len(rs) :
         (i < j /\ rs[i].dno > 0 /\ rs[j].dno > 0) => rs[i].dno < rs[j].dno
    /\ \A i, j, k \in 1..Len(rs) : \A c \in 1..nexec :
         (i < j /\ j < k /\ InSeq(c, rs[i].encl) /\ InSeq(c, rs[k].encl)) =>
           InSeq(c, rs[j].encl)
    /\ \A i, j \in 1..Len(rs) :
         (/\ i < j
          /\ rs[i].encl # <<>>
          /\ rs[i].encl = rs[j].encl
          /\ Library[ExecId(LastOf(rs[i].encl))].indexVarName = "idx") =>
           rs[i].vars["idx"].v[1] < rs[j].vars["idx"].v[1]

\* in an included script a request, the requests of a loop and a second
\* request were dispatched and recorded in that order
C9_Witness ==
  /\ Returned
  /\ \E i, j, k \in 1..Len(stepResults) :
       /\ i < j /\ j < k
       /\ Len(stepResults[i].encl) = 1 /\ stepResults[i].dno > 0
       /\ Len(stepResults[j].encl) = 2 /\ stepResults[j].dno > 0
       /\ Len(stepResults[k].encl) = 1 /\ stepResults[k].dno > 0

(* ------------------------------- C10 ---------------------------------- *)
\* C10 as stated, for a script that is one loop over a literal array with
\* one nested leaf step: the results number as many as the items and the
\* k-th result has the k-th item bound.
C10_Original ==
  (Returned /\ script = << "loopLit" >>) =>
    /\ Len(stepResults) = Len(Library["loopLit"].items)
    /\ \A k \in 1..Len(Library["loopLit"].items) :
         stepResults[k].vars["item"] = Num(Library["loopLit"].items[k])

\* the loop has one nested leaf step, which does not write the loop's own
\* variables
OneLeafBody(step) ==
  /\ step.kind = "loop"
  /\ Len(Lists[step.steps]) = 1
  /\ LET leaf == Library[Lists[step.steps][1]]
     IN /\ leaf.kind = "request"
        /\ IsUndefined(leaf.vars[step.varName]) /\ leaf.capture[step.varName] = "none"
        /\ step.indexVarName # "" =>
             (/\ IsUndefined(leaf.vars[step.indexVarName])
              /\ leaf.capture[step.indexVarName] = "none")

\* C10 amended: for a loop over an array with one nested leaf step that
\* does not itself write the loop's variables, a loop step that completes
\* without error contributes one result per item from index start (0 by
\* default) on, in item order, followed by one result of the loop step
\* itself; the k-th per-item result has vars[varName] equal to the item at
\* index start+k and, when indexVarName is bound, vars[indexVarName] equal
\* to start+k (0-based).
C10_LoopResults ==
  \A rs \in ResultLists : \A j \in 1..Len(rs) :
    LET r == rs[j]
        step == Library[r.origin]
        items == LoopItems(step, r.vars).v
        n == IF Len(items) > step.start THEN Len(items) - step.start ELSE 0
    IN (OneLeafBody(step) /\ r.validation.name = "combined-validations") =>
         /\ j > n
         /\ Cardinality({k \in 1..Len(rs) : InSeq(r.eno, rs[k].encl)}) = n
         /\ \A m \in 1..n :
              LET q == rs[j - n + m - 1]
              IN /\ q.encl = Append(r.encl, r.eno)
                 /\ q.vars[step.varName] = Num(items[step.start + m])
                 /\ step.indexVarName # "" =>
                      q.vars[step.indexVarName] = Num(step.start + m - 1)

\* a loop over a captured array with the index bound completed: one
\* result per item, then the loop's own
C10_Witness ==
  /\ Returned
  /\ \E j \in 1..Len(stepResults) :
       /\ stepResults[j].origin = "loopVar"
       /\ stepResults[j].validation.name = "combined-validations"
       /\ j > MaxItems
       /\ stepResults[j - 1].vars["idx"] = Num(MaxItems - 1)
       /\ stepResults[j - 1].vars["item"] = Num(ItemArray[MaxItems])

(* ------------------------------- C11 ---------------------------------- *)
\* the first param the included script declares required that the include
\* step does not supply, "" when there is none
MissingRequired(step) ==
  LET decl == Includes[step.include].params
      miss == {k \in 1..Len(decl) :
                 decl[k].required /\ IsUndefined(step.params[decl[k].name])}
  IN IF miss = {} THEN ""
     ELSE decl[CHOOSE k \in miss : \A j \in miss : k <= j].name
OmitsRequired(id) ==
  Library[id].kind = "include" /\ MissingRequired(Library[id]) # ""

\* C11: an include step that omits a param the included script declares
\* required raises, as the first thing that happens after it begins, an
\* error whose message names that param; no step of the included script
\* is ever begun for it, so no request is dispatched for that include.
C11_RequiredParam ==
  \A k \in 1..Len(log) :
    (log[k].ev = "begin" /\ OmitsRequired(log[k].info)) =>
      /\ k < Len(log) =>
           log[k + 1] = Ev("raise", log[k].eno,
                           ParamRequired(MissingRequired(Library[log[k].info])))
      /\ \A j \in 1..Len(frames) : ~InSeq(log[k].eno, frames[j].encl)
      /\ \A rs \in ResultLists : \A j \in 1..Len(rs) :
           ~InSeq(log[k].eno, rs[j].encl)

\* an include of a script with a defaulted and a required param supplied
\* neither: the error names the required one, nothing was dispatched
C11_Witness ==
  /\ script = << "incTwo" >>
  /\ outcome = "thrown"
  /\ ndisp = 0
  /\ log[2] = Ev("raise", 1, "param=p is required by included script")

(* ------------------------------- C12 ---------------------------------- *)
\* the variables a step writes: its step vars and its captures
Writes(step) ==
  {n \in VarNames : ~IsUndefined(step.vars[n]) \/ step.capture[n] # "none"}
IsLeaf(r) == Library[r.origin].kind = "request"
Completed(r) == r.validation.name = "combined-validations"
Last(q) == q[Len(q)]
\* in the list rs: i is the entry of a leaf step of the list that the
\* container step of entry j ran, and j + 1 is the entry of the leaf step
\* that follows the container in its own list
ChildOwnNext(rs, i, j) ==
  /\ i < j /\ j < Len(rs)
  /\ rs[i].encl = Append(rs[j].encl, rs[j].eno)
  /\ IsLeaf(rs[i]) /\ Completed(rs[i]) /\ Completed(rs[j])
  /\ rs[j + 1].encl = rs[j].encl
  /\ IsLeaf(rs[j + 1])
\* n is not written again between entry i and the recording of entry
\* j + 1 (the container of entry j writes its step vars before it runs
\* its list)
NotRewritten(rs, i, j, n) ==
  \A m \in ((i + 1)..(j + 1)) \ {j} : n \notin Writes(Library[rs[m].origin])

C13_Original ==
  \A rs \in ResultLists : \A i, j \in 1..Len(rs) :
    (ChildOwnNext(rs, i, j) /\ Library[rs[j].origin].kind = "loop") =>
      \A n \in Writes(Library[rs[i].origin]) :
        (/\ NotRewritten(rs, i, j, n)
         /\ ~IsUndefined(Library[rs[j].origin].vars[n])) =>
          rs[j + 1].vars[n] = rs[i].vars[n]

\* C13 amended: a write made inside a loop iteration does not propagate
\* back. Each iteration runs on its own copy of the variables: while a
\* loop step waits for an iteration nothing changes the loop step's own
\* variables, so the loop step and the steps after it see the values from
\* before the loop.
C13_Step ==
  \A k \in 1..Len(frames) :
    (frames[k].pc = "loopWait" /\ k < Len(frames)) =>
      varsHeap'[frames[k].vars] = varsHeap[frames[k].vars]
C13_LoopWritesStayLocal == [][C13_Step]_vars

\* a loop step set p to 1, every iteration set p to 3, and the request
\* after the loop still sees 1
C13_Witness ==
  /\ Returned
  /\ script = << "loopW", "get" >>
  /\ Len(stepResults) = MaxItems + 2
  /\ stepResults[1].vars["p"] = Num(3)
  /\ stepResults[MaxItems + 1].vars["p"] = Num(1)
  /\ stepResults[MaxItems + 2].vars["p"] = Num(1)

(* ------------------------------- C14 ---------------------------------- *)
\* C14: the vars and sessions of every recorded result, read through to
\* the nested values, are what they were when the result was recorded,
\* whatever later steps and handlers write.
C14_Claim ==
  \A rs \in ResultLists : \A j \in 1..Len(rs) :
    /\ Deep(rs[j].vars, objects) = rs[j].recorded.deep
    /\ rs[j].sessions = rs[j].recorded.sessions

(* ------------------------------- C15 ---------------------------------- *)
Recorded(e) == HasEv("record", e) \/ HasEv("error", e)
\* where in the history the result of execution e was recorded
RecPos(e) ==
  CHOOSE k \in 1..Len(log) : log[k].ev \in {"record", "error"} /\ log[k].eno = e

\* C15 as stated: every entry of the final stepResults has every field as
\* first recorded, and every result ever recorded is in it.
C15_Original ==
  Returned =>
    /\ \A j \in 1..Len(stepResults) :
         LET r == stepResults[j]
         IN /\ r.step = r.recorded.step
            /\ r.status = r.recorded.status
            /\ r.validation = r.recorded.validation
            /\ r.vars = r.recorded.vars
            /\ r.sessions = r.recorded.sessions
            /\ r.stack = r.recorded.stack
    /\ \A e \in 1..nexec : Recorded(e) => Entries(stepResults, e) = 1

\* an entry of a list held at nesting depth d: status, validation, stack,
\* and the bindings of vars and sessions are as recorded; step is as
\* recorded for a step of that list and otherwise the container step of
\* that list the entry came up through
EntryAsRecorded(r, d) ==
  /\ r.status = r.recorded.status
  /\ r.validation = r.recorded.validation
  /\ r.vars = r.recorded.vars
  /\ r.sessions = r.recorded.sessions
  /\ r.stack = r.recorded.stack
  /\ r.step = (IF Len(r.encl) > d THEN ExecId(r.encl[d + 1]) ELSE r.recorded.step)
ListAsRecorded(rs, d) ==
  /\ \A j \in 1..Len(rs) : EntryAsRecorded(rs[j], d)
  /\ \A i, j \in 1..Len(rs) : i < j => RecPos(rs[i].eno) < RecPos(rs[j].eno)
\* in how many places the result of execution e is held
Held(e) ==
  Cardinality({k \in 1..Len(frames) : Entries(frames[k].stepResults, e) > 0})
    + (IF Entries(stepResults, e) > 0 THEN 1 ELSE 0)

\* C15 amended: every result list, of a running invocation or the final
\* one, holds its entries in the order they were recorded, each with the
\* status, validation, stack and variable and session bindings it was
\* recorded with; the step field alone is rewritten, to the enclosing
\* container step, each time a container takes over the results of its
\* list; and a recorded result stays in exactly one list unless the list
\* it is in is lost with an error.
C15_AppendOnly ==
  /\ \A k \in 1..Len(frames) :
       ListAsRecorded(frames[k].stepResults, Len(frames[k].encl))
  /\ ListAsRecorded(stepResults, 0)
  /\ \A e \in 1..nexec :
       /\ Entries(stepResults, e) <= 1
       /\ \A k \in 1..Len(frames) : Entries(frames[k].stepResults, e) <= 1
       /\ Held(e) = (IF Kept(e) THEN 1 ELSE 0)

\* a request inside a loop inside an include: in the final list its step
\* is the include step, its stack the two containers, as recorded
C15_Witness ==
  /\ Returned
  /\ \E j \in 1..Len(stepResults) :
       LET r == stepResults[j]
       IN /\ r.origin = "get" /\ Len(r.encl) = 2
          /\ r.step = "incLoop" /\ r.recorded.step = "get"
          /\ r.stack = << "incLoop", "loopLit" >>

(* ------------------------------- C16 ---------------------------------- *)
\* C16: the stack of every result is the sequence of the loop and include
\* steps that enclose the step that produced it, outermost first; empty
\* for a top-level step.
C16_Claim ==
  \A rs \in ResultLists : \A j \in 1..Len(rs) :
    rs[j].stack = [k \in 1..Len(rs[j].encl) |-> ExecId(rs[j].encl[k])]

(* ------------------------------- C17 ---------------------------------- *)
\* the status check as the claim states it
ClaimedStatusPass(step, status) ==
  IF step.expStatus # NoStatus THEN status = step.expStatus
  ELSE ToString(status \div 100) \o "xx" =
         (IF step.expClass = "" THEN "2xx" ELSE step.expClass)

\* C17: the status detail of a step passes if and only if the step gives
\* an exact status and the response status equals it, or gives none and
\* the class of the response status is the step's statusClass, "2xx" when
\* none is given.
C17_Claim ==
  \A k \in 1..Len(frames) :
    LET f == frames[k]
    IN f.pc \in {"record", "catch"} =>
         \A j \in 1..Len(f.checkDetails) :
           f.checkDetails[j].name = "status" =>
             f.checkDetails[j].result = ClaimedStatusPass(CurStep(f), f.res.status)

(* ------------------------------- C18 ---------------------------------- *)
\* the step of the result got as far as its validation
ReachedValidation(r) ==
  \/ Completed(r)
  \/ /\ r.validation.details # <<>>
     /\ Last(r.validation.details).name = "runtime"
     /\ Last(r.validation.details).error \in {"validation failed", "validation.id"}
IsCheckDetail(d) == d.name \notin {"status", "runtime"}

\* C18: the details of every result whose step reached validation hold
\* one entry per check string of every validation group, in declaration
\* order, and a check that threw is an entry with result false and the
\* error message.
C18_Claim ==
  \A rs \in ResultLists : \A j \in 1..Len(rs) :
    LET r == rs[j]
        flat == FlatChecks(Library[r.origin].validate)
        ds == SelectSeq(r.validation.details, IsCheckDetail)
    IN (IsLeaf(r) /\ ReachedValidation(r)) =>
         /\ [k \in 1..Len(ds) |-> ds[k].name] = [k \in 1..Len(flat) |-> flat[k].id]
         /\ \A k \in 1..Len(ds) : ds[k].error # "" => ~ds[k].result

(* ------------------------------- C19 ---------------------------------- *)
\* C19: in every recorded result validation.result is true if and only
\* if every entry of validation.details has result true.
C19_ResultIsConjunction ==
  \A rs \in ResultLists : \A j \in 1..Len(rs) :
    rs[j].validation.result = AllTrue(rs[j].validation.details)

\* with continueOnInvalid, a step with two validation groups was recorded
\* as failed: status and first check passed, the second check threw
C19_Witness ==
  /\ Returned
  /\ script = << "checks2" >>
  /\ Len(stepResults) = 1
  /\ LET v == stepResults[1].validation
     IN /\ v.name = "combined-validations" /\ ~v.result
        /\ Len(v.details) = 3
        /\ v.details[1].result /\ v.details[2].result
        /\ ~v.details[3].result /\ v.details[3].error # ""

(* ------------------------------- C20 ---------------------------------- *)
\* the keys a handler put into its scope
HandlerKeys(o) == IF o = "assign" THEN {"p", "idx"} ELSE {}

\* C20: when a handler returns, the live vars gain the keys the handler
\* put into its scope that the scope did not have before the call, with
\* the values the handler gave them, and nothing else changes: a key that
\* existed keeps its value, and no other vars object is touched.
C20_Step ==
  (/\ Running /\ Top.pc = "handlers"
   /\ Len(log') > Len(log) /\ log'[Len(log')].ev = "handler") =>
    LET o == log'[Len(log')].info
        ref == Top.vars
    IN /\ \A n \in VarNames :
            varsHeap'[ref][n] =
              (IF n \in HandlerKeys(o) /\ IsUndefined(varsHeap[ref][n])
               THEN HandlerAssigned ELSE varsHeap[ref][n])
       /\ Len(varsHeap') = Len(varsHeap)
       /\ \A k \in 1..Len(varsHeap) : k # ref => varsHeap'[k] = varsHeap[k]
HandlerEvents(e) ==
  LET OfExec(x) == x.ev \in {"hcall", "hreturn"} /\ x.eno = e
  IN SelectSeq(log, OfExec)

\* C21: the handlers named by a step run one at a time in the order
\* listed: calls and returns alternate, the k-th call is the call of the
\* k-th handler listed, no handler is called while another one has not
\* returned or thrown, and each handler after the first is given the
\* response the previous one returned.
C21_HandlersInOrder ==
  /\ \A e \in 1..nexec :
       LET H == HandlerEvents(e)
           step == Library[ExecId(e)]
       IN /\ Len(H) <= 2 * Len(step.handlers)
          /\ \A k \in 1..Len(H) :
               /\ H[k].ev = (IF k % 2 = 1 THEN "hcall" ELSE "hreturn")
               /\ H[k].name = step.handlers[(k + 1) \div 2]
               /\ (k % 2 = 1 /\ k > 2) => H[k].res = H[k - 1].res
  /\ \A j, k \in 1..Len(log) :
       (j < k /\ log[j].ev = "hcall" /\ log[k].ev = "hcall") =>
         \E m \in (j + 1)..(k - 1) :
           /\ log[m].eno = log[j].eno
           /\ \/ log[m].ev = "hreturn" /\ log[m].name = log[j].name
              \/ log[m].ev = "raise" /\ log[m].info = "handler failed"

\* the second handler of a step was called with the response the first
\* one returned in place of the server's
C21_Witness ==
  \E e \in 1..nexec :
    LET H == HandlerEvents(e)
    IN /\ Len(H) >= 3
       /\ H[1].name = "h1" /\ H[3].name = "h2"
       /\ H[1].res # ReplacedRes
       /\ H[2].res = ReplacedRes
       /\ H[3].res = ReplacedRes

(* ------------------------------- C22 ---------------------------------- *)
\* the server names the script declares
Declared == {servers[k].name : k \in 1..Len(servers)}

C22_WitnessUndeclared ==
  \E k \in 1..Len(log) :
    /\ log[k].ev = "error" /\ log[k].info = "server not found"
    /\ Library[ExecId(log[k].eno)].server = "ghost"
    /\ ndisp > 0

(* ------------------------------- C23 ---------------------------------- *)
\* a request step that references a session is about to build its request
UsesSession == Running /\ Top.pc = "request" /\ CurStep(Top).session # ""
\* the token the claim names: the one stored under the reference or, when
\* there is none and the reference is a template, the one stored under
\* the name the template renders to; "" when neither yields one
ClaimedToken ==
  LET ref == CurStep(Top).session
      v == varsHeap[Top.vars]
      direct == IF ref \in SessNames THEN sessions[ref] ELSE ""
      rendered == IF ref = Tpl("p") THEN Render(v["p"])
                  ELSE IF ref = Tpl("idx") THEN Render(v["idx"])
                  ELSE ""
  IN IF direct # "" THEN direct
     ELSE IF rendered \in SessNames THEN sessions[rendered]
     ELSE ""
\* what the step does next: the request goes out with that token, or the
\* step fails with the given error and nothing goes out
SentWith(tok) ==
  /\ ndisp' = ndisp + 1
  /\ log' = Append(log, DispatchEv(Top.eno, ServerName(CurStep(Top)), tok))
FailsWith(msg) ==
  /\ ndisp' = ndisp
  /\ log' = Append(log, Ev("raise", Top.eno, msg))
  /\ frames'[Len(frames)].pc = "catch"

\* C23 as stated: a request step that references a session is dispatched
\* carrying the claimed token; if there is none the session is declared
\* missing, the step fails and no request is dispatched.
C23_OriginalStep ==
  UsesSession =>
    IF ClaimedToken # "" THEN SentWith(ClaimedToken)
    ELSE FailsWith("session not found")
C23_Step ==
  UsesSession =>
    IF ~ResolveServer(CurStep(Top)).session THEN FailsWith("session not supported")
    ELSE IF ClaimedToken # "" THEN SentWith(ClaimedToken)
    ELSE FailsWith("session not found")
C23_WitnessMissing ==
  \E k \in 1..Len(log) :
    /\ log[k] = Ev("raise", log[k].eno, "session not found")
    /\ ExecId(log[k].eno) = "useTplUnset"
    /\ sessions["s1"] # ""

(* ------------------------------- C24 ---------------------------------- *)
\* a header name without its case
Lower(name) == IF name = "ETag" THEN "etag" ELSE name
\* a step is about to run its captures
AtCapture == Running /\ Top.pc = "captureVars"
\* the capture of n has a source that throws: an invalid source or an
\* assign of a variable that is undefined (and that no capture of the
\* step writes)
HardFailure(n) ==
  LET step == CurStep(Top)
  IN \/ step.capture[n] = "invalid"
     \/ /\ step.capture[n] = "assign"
        /\ step.capture[step.assignFrom] = "none"
        /\ IsUndefined(varsHeap[Top.vars][step.assignFrom])
\* the capture of n names a header or a cookie the response does not have
NoMatch(n) ==
  LET step == CurStep(Top)
      hs == Top.res.headers
  IN \/ /\ step.capture[n] = "header"
        /\ \A k \in 1..Len(hs) : Lower(hs[k].name) # Lower(step.capName)
     \/ /\ step.capture[n] = "cookie"
        /\ \A k \in 1..Len(hs) :
             hs[k].name = "set-cookie" =>
               \A c \in CookieValues : hs[k].value # step.capName \o "=" \o c
\* the step is aborted: an error is raised in it, it goes to its catch
Aborted ==
  /\ frames'[Len(frames)].pc = "catch"
  /\ log'[Len(log')].ev = "raise" /\ log'[Len(log')].eno = Top.eno
NotWritten(n) == varsHeap'[Top.vars][n] = varsHeap[Top.vars][n]
\* the executions in which a capture raised an error have no validation
CaptureErrors == {UndefinedVariable, InvalidCaptureSource}
NoValidationAfterCaptureError ==
  \A j, k \in 1..Len(log) :
    (log[j].ev = "raise" /\ log[j].info \in CaptureErrors) =>
      ~(log[k].ev = "validate" /\ log[k].eno = log[j].eno)

\* C24 as stated: a capture whose source finds nothing (no matching
\* header, no matching cookie, an undefined assign variable, an invalid
\* capture spec) aborts the step: nothing is written to the target and
\* the step does not reach validation.
C24_OriginalStep ==
  AtCapture =>
    \A n \in VarNames : (HardFailure(n) \/ NoMatch(n)) => (Aborted /\ NotWritten(n))
C24_Step ==
  AtCapture =>
    IF \E n \in VarNames : HardFailure(n)
    THEN Aborted /\ \A n \in VarNames : HardFailure(n) => NotWritten(n)
    ELSE /\ frames'[Len(frames)].pc = After("captureVars")
         /\ \A n \in VarNames : NoMatch(n) => varsHeap'[Top.vars][n] = Null
C24_WitnessNull ==
  \E k \in 1..Len(stepResults) :
    /\ stepResults[k].origin = "capHdr"
    /\ stepResults[k].status = 404
    /\ stepResults[k].vars["p"] = Null

(* ------------------------------- C25 ---------------------------------- *)
\* the headers of the response whose name is the given one, case aside
MatchingHeaders(name) ==
  {k \in 1..Len(Top.res.headers) : Lower(Top.res.headers[k].name) = Lower(name)}
FirstOf(S) == CHOOSE k \in S : \A j \in S : k <= j

\* C25: a header capture matches the requested name case-insensitively
\* against the response headers and yields the value of the first
\* matching header.
C25_Step ==
  AtCapture =>
    \A n \in VarNames :
      LET step == CurStep(Top)
          found == MatchingHeaders(step.capName)
      IN (step.capture[n] = "header" /\ found # {}) =>
           varsHeap'[Top.vars][n] = Str(Top.res.headers[FirstOf(found)].value)
C25_Claim == [][C25_Step]_vars

(* -------------------- reading a check of a helper --------------------- *)
Checked == cmp.phase = "checked"
\* a string that looks like a number, and the number an operand stands for
NumericLooking(x) == IsString(x) /\ jsonNumberRegex(toLowerCase(x.s))
ValueOf(x) == IF IsString(x) THEN StringToNumber(x.s) ELSE x
\* one operand is a number, the other a string (that looks like a number)
NumberAndString(l, r) == (IsNumber(l) /\ IsString(r)) \/ (IsString(l) /\ IsNumber(r))
NumberAndNumeric(l, r) ==
  (IsNumber(l) /\ NumericLooking(r)) \/ (NumericLooking(l) /\ IsNumber(r))
\* a op b on two numbers
NumericOrder(op, a, b) ==
  IF op = ">" THEN NumLess(b, a)
  ELSE IF op = ">=" THEN NumLess(b, a) \/ NumEq(a, b)
  ELSE IF op = "<" THEN NumLess(a, b)
  ELSE NumLess(a, b) \/ NumEq(a, b)

(* ------------------------------- C26 ---------------------------------- *)
\* C26: for gt, gte, lt and lte, when one operand is a number and the other
\* a numeric-looking string, on either side, the helper returns the numeric
\* comparison of the number with the number the string denotes (an integer
\* or a decimal, as the string is written); eq and neq of a number and a
\* string compare the number with the number the string converts to.
C26_Coercion ==
  Checked =>
    /\ (cmp.op \in numericOps /\ NumberAndNumeric(cmp.l, cmp.r)) =>
         /\ ~cmp.out.threw
         /\ cmp.out.val = NumericOrder(cmp.op, ValueOf(cmp.l), ValueOf(cmp.r))
    /\ (cmp.op \in {"==", "!="} /\ NumberAndString(cmp.l, cmp.r)) =>
         /\ ~cmp.out.threw
         /\ cmp.out.val = ((cmp.op = "==") = NumEq(ValueOf(cmp.l), ValueOf(cmp.r)))
\* lt(2, "1E1") is true: the string is read as the decimal 10
C26_Witness ==
  /\ Checked
  /\ cmp.op = operatorHelpers.lt
  /\ cmp.l = HNum(2, 0)
  /\ cmp.r = HStr(<< "1", "E", "1" >>)
  /\ cmp.out.val
\* gt("10", 2) is true although "10" sorts before "2"
C26_WitnessLeft ==
  /\ Checked
  /\ cmp.op = operatorHelpers.gt
  /\ cmp.l = HStr(<< "1", "0" >>)
  /\ cmp.r = HNum(2, 0)
  /\ cmp.out.val
\* eq(10, "10") is true
C26_WitnessEq ==
  /\ Checked
  /\ cmp.op = operatorHelpers.eq
  /\ cmp.l = HNum(10, 0)
  /\ cmp.r = HStr(<< "1", "0" >>)
  /\ cmp.out.val

(* ------------------------------- C27 ---------------------------------- *)
\* the ordering and the string family
OrderingFamily == {operatorHelpers[n] : n \in {"gt", "gte", "lt", "lte"}}
StringFamily ==
  {operatorHelpers[n] : n \in {"startsWith", "notStartsWith", "endsWith",
                               "notEndsWith", "includes", "notIncludes"}}
\* the operands whose type an operator of these families does not take: a
\* side that is neither a string nor a number, but for an array on the left
\* of includes and notIncludes
Offending(l, op, r) ==
  {x \in {l} : ~isComparable(x) /\ ~(x.k = "array" /\ op \in {"includes", "notIncludes"})}
  \cup {x \in {r} : ~isComparable(x)}
\* C27: whenever an operator of the ordering or string family is not
\* applied because of the types of its operands (an operand of a type it
\* does not take, or the helper raising), the helper raises an error whose
\* message names the operator and an operand, the offending one if there is
\* one, and the runner pushes a failed check holding that error.
C27_Claim ==
  (Checked /\ cmp.op \in OrderingFamily \cup StringFamily) =>
    /\ Offending(cmp.l, cmp.op, cmp.r) # {} => cmp.out.threw
    /\ cmp.out.threw =>
         /\ cmp.out.err.op = cmp.op
         /\ cmp.out.err.operand \in {cmp.l, cmp.r}
         /\ Offending(cmp.l, cmp.op, cmp.r) # {} =>
              cmp.out.err.operand \in Offending(cmp.l, cmp.op, cmp.r)
         /\ ~cmp.detail.result
         /\ cmp.detail.error = cmp.out.err
         /\ ~cmp.overall
\* the part of C27 the helper keeps: an operand the operator does not take
\* always raises, and the runner records what was raised as a failed check
C27_Raises ==
  (Checked /\ cmp.op \in OrderingFamily \cup StringFamily) =>
    /\ Offending(cmp.l, cmp.op, cmp.r) # {} => cmp.out.threw
    /\ cmp.out.threw =>
         ~cmp.detail.result /\ cmp.detail.error = cmp.out.err /\ ~cmp.overall
\* gt(true, 1): the error names gt and the operand true
C27_Witness ==
  /\ Checked
  /\ cmp.op = operatorHelpers.gt
  /\ cmp.l = HBool(TRUE)
  /\ cmp.out.threw
  /\ cmp.out.err = [msg |-> InvalidLeft, op |-> ">", operand |-> HBool(TRUE)]
  /\ ~cmp.detail.result

(* ------------------------------- C28 ---------------------------------- *)
\* null, undefined, the empty string, the empty array
EmptyAsDocumented(x) ==
  x \in {HNull, HUndefined, HStr(<<>>), HArray(<<>>)}
\* C28: empty is true exactly when its operand is null, undefined, the
\* empty string or the empty array, so it is false for 0, false and the
\* empty object, and notEmpty is its negation.
C28_Claim ==
  (Checked /\ cmp.op \in {"empty", "notEmpty"}) =>
    /\ ~cmp.out.threw
    /\ cmp.out.val = ((cmp.op = "empty") = EmptyAsDocumented(cmp.l))
\* the same on every operand but the empty object
C28_ButEmptyObject ==
  (Checked /\ cmp.op \in {"empty", "notEmpty"} /\ cmp.l # HObject(0)) =>
    /\ ~cmp.out.threw
    /\ cmp.out.val = ((cmp.op = "empty") = EmptyAsDocumented(cmp.l))

(* ------------------------------- C29 ---------------------------------- *)
Started == outcome # "starting"
\* C29: when the merged init declares no server, runZillaScript fails with
\* the error that no servers are defined, and no step has executed and no
\* request has been dispatched.
C29_Claim ==
  (Started /\ caller.servers # "declared") =>
    /\ outcome = "thrown"
    /\ log = << Ev("raise", 0, NoServersDefined) >>
    /\ nexec = 0 /\ ndisp = 0 /\ stepResults = <<>>
\* what holds of every run without a server: it fails before any step
C29_FailsFirst ==
  (Started /\ caller.servers # "declared") =>
    /\ outcome = "thrown"
    /\ Len(log) = 1 /\ log[1].ev = "raise"
    /\ caller.servers = "absent" => log[1].info = NoServersDefined
    /\ nexec = 0 /\ ndisp = 0 /\ stepResults = <<>>

(* ------------------------------- C30 ---------------------------------- *)
\* C30: a run writes neither to the script object (no step's request is
\* written to) nor to the init.sessions object the caller supplied (init
\* vars are copied before the run and hold no objects here).
C30_Step ==
  /\ caller'.written = caller.written
  /\ caller.sessions => sessions' = sessions
C30_Claim == [][C30_Step]_vars
\* the writes a run makes to the caller's objects: uri and method into the
\* request of a step being processed, a captured token into init.sessions
C30_Writes ==
  [][/\ caller'.written # caller.written =>
          /\ Running /\ Top.pc = "process"
          /\ caller'.written = caller.written \cup RequestsWritten(StepList(Top.list))
     /\ sessions' # sessions =>
          /\ Running /\ Top.pc = "captureSession"
          /\ \E n \in SessNames : sessions' = [sessions EXCEPT ![n] = Top.res.tok]
    ]_vars

(* ------------------------------- C31 ---------------------------------- *)
\* the invocation of an included script that has not run a step yet
Entered(k) ==
  /\ k >= 2 /\ frames[k - 1].pc = "includeWait" /\ frames[k].pc = "process"
\* the params of the included script that have a default and that the
\* include step leaves out
Defaulted(step) ==
  LET decl == Includes[step.include].params
  IN {decl[j] : j \in {i \in 1..Len(decl) :
                         /\ ~IsUndefined(decl[i].default)
                         /\ IsUndefined(step.params[decl[i].name])}}

\* C31: when an include step omits a param for which the included script
\* declares a default, the param is bound to the default before the
\* included steps run, whatever the default is (0, false and "" included).
C31_Claim ==
  \A k \in 1..Len(frames) :
    Entered(k) =>
      \A d \in Defaulted(CurStep(frames[k - 1])) :
        varsHeap[frames[k].vars][d.name] = d.default

\* what the code does: a default that is truthy is bound
C31_TruthyBound ==
  \A k \in 1..Len(frames) :
    Entered(k) =>
      \A d \in Defaulted(CurStep(frames[k - 1])) :
        Truthy(d.default) => varsHeap[frames[k].vars][d.name] = d.default

\* an included script is entered with its default 4 bound and its
\* default 0 not bound
C31_WitnessZero ==
  \E k \in 1..Len(frames) :
    /\ Entered(k) /\ CurStep(frames[k - 1]).id = "incZero"
    /\ varsHeap[frames[k].vars]["p"] = Num(4)
    /\ IsUndefined(varsHeap[frames[k].vars]["idx"])

(* ------------------------------- C32 ---------------------------------- *)
\* the names of the params the included script of a step declares
ParamNames(step) ==
  LET decl == Includes[step.include].params
  IN {decl[j].name : j \in 1..Len(decl)}

\* C32: an include's params are bound in a forked scope: binding them and
\* entering the included script does not change the variables of the
\* including script, so a caller variable that has the name of a param
\* keeps the value it had before the include step.
C32_Step ==
  (/\ Running /\ Top.pc = "include"
   /\ Len(frames') = Len(frames) + 1) =>
    \A n \in ParamNames(CurStep(Top)) :
      varsHeap'[Top.vars][n] = varsHeap[Top.vars][n]
C32_Claim == [][C32_Step]_vars

\* what the code does: the params are written into the vars object of
\* the including script, which is the one the included steps run on
C32_BoundInCallerStep ==
  (/\ Running /\ Top.pc = "include"
   /\ Len(frames') = Len(frames) + 1) =>
    /\ frames'[Len(frames')].vars = Top.vars
    /\ \A n \in ParamNames(CurStep(Top)) :
         ~IsUndefined(CurStep(Top).params[n]) =>
           varsHeap'[Top.vars][n] = CurStep(Top).params[n]
C32_BoundInCaller == [][C32_BoundInCallerStep]_vars

\* p was 3 before the include step that passes p = 5, and is 5 in the step
\* of the including script that follows the include step
C32_WitnessLeak ==
  /\ Returned /\ script = << "incOuter" >>
  /\ \E j, k \in 1..Len(stepResults) :
       /\ j < k
       /\ stepResults[j].origin = "setP" /\ stepResults[j].vars["p"] = Num(3)
       /\ stepResults[k].origin = "get" /\ Len(stepResults[k].encl) = 1
       /\ stepResults[k].vars["p"] = Num(5)

(* ------------------------------- C33 ---------------------------------- *)
\* the iterations a loop execution has begun, in order
Iterations(e) ==
  LET OfLoop(x) == x.ev = "iter" /\ x.eno = e
  IN SelectSeq(log, OfLoop)
\* the for loop of a loop execution has been left
LoopDone(e) == \E k \in 1..Len(log) : log[k].ev = "loopdone" /\ log[k].eno = e

\* C33: a loop runs its body once for each index from start (default 0)
\* up to the last index of the item array, in increasing order, and then
\* ends: the k-th iteration has index start + k - 1, every index is below
\* the length the array had at loop entry, and a loop that has ended has
\* run every such index, whatever its body captured or set meanwhile.
C33_LoopIterations ==
  \A a \in 1..Len(log) :
    log[a].ev = "loop" =>
      LET e == log[a].eno
          I == Iterations(e)
          start == Library[ExecId(e)].start
          n == log[a].len
      IN /\ log[a].i = start
         /\ \A k \in 1..Len(I) :
              /\ I[k].i = start + k - 1
              /\ I[k].i < n
              /\ I[k].len = n
         /\ LoopDone(e) =>
              Len(I) = (IF n > start THEN n - start ELSE 0)

\* a loop over a captured array of MaxItems items ran all of them although
\* its body set the variable to an array of one item
C33_Witness ==
  /\ Returned /\ script = << "incShrink" >>
  /\ \E a \in 1..Len(log) :
       /\ log[a].ev = "loop" /\ log[a].len = MaxItems
       /\ LoopDone(log[a].eno)
       /\ Len(Iterations(log[a].eno)) = MaxItems
  /\ \E j \in 1..Len(stepResults) :
       /\ stepResults[j].origin = "setList"
       /\ stepResults[j].vars["list"] = Arr(<< 7 >>)

\* a loop with start 1 ran the indices from 1 on only
C33_WitnessStart ==
  /\ Returned /\ script = << "loopFrom1" >>
  /\ \E a \in 1..Len(log) :
       /\ log[a].ev = "loop" /\ log[a].i = 1
       /\ LoopDone(log[a].eno)
       /\ Len(Iterations(log[a].eno)) = MaxItems - 1

(* ------------------------------- C34 ---------------------------------- *)
\* the names a loop step binds for its iterations
LoopBindings(step) == {step.varName, step.indexVarName} \ {""}

\* C34: the item and index bindings of a loop exist only in the vars of
\* the iteration: from loop entry to the end of the loop no step changes,
\* in the vars of the loop step, the variable named by varName or by
\* indexVarName, so after the loop a name that was unbound is still
\* unbound and a name that was bound still has its earlier value.
C34_Step ==
  \A k \in 1..Len(frames) :
    frames[k].pc \in {"loopNext", "loopWait"} =>
      \A n \in LoopBindings(CurStep(frames[k])) :
        varsHeap'[frames[k].vars][n] = varsHeap[frames[k].vars][n]
C34_BindingsStayInFork == [][C34_Step]_vars

\* item was 99 before a loop that binds item and idx; an iteration saw
\* item 20 and idx 1, the loop step and the step after it see item 99 and
\* no idx
C34_Witness ==
  /\ Returned /\ script = << "incBind" >>
  /\ \E i, j, k \in 1..Len(stepResults) :
       /\ i < j /\ j < k
       /\ stepResults[i].origin = "get" /\ Len(stepResults[i].encl) = 2
       /\ stepResults[i].vars["item"] = Num(ItemArray[2])
       /\ stepResults[i].vars["idx"] = Num(1)
       /\ stepResults[j].origin = "loopFrom1"
       /\ stepResults[j].vars["item"] = Num(99)
       /\ IsUndefined(stepResults[j].vars["idx"])
       /\ stepResults[k].origin = "get" /\ Len(stepResults[k].encl) = 1
       /\ stepResults[k].vars["item"] = Num(99)
       /\ IsUndefined(stepResults[k].vars["idx"])

(* ------------------------------- C35 ---------------------------------- *)
\* the captures that stored a token under a name before position d
Captures(name, d) ==
  {c \in 1..(d - 1) :
     /\ log[c].ev = "captureSession" /\ log[c].name = name /\ log[c].tok # ""}
Latest(S) == CHOOSE c \in S : \A x \in S : x <= c

ObjectEdits(step) == {n \in VarNames : step.edits[n].t = "lit"}
\* the live vars of the step once its step vars are written
BeforeEdits == SetStepVars(varsHeap[Top.vars], CurStep(Top))

\* C36: an edits entry whose value is an object replaces a variable that
\* holds an object by the merge of that object with the edit: the keys
\* the edit gives have the edit's values, the other keys of the object are
\* kept, and no other variable and no object that existed is changed.
C36_Step ==
  (/\ Running /\ Top.pc = "prepare" /\ frames'[Len(frames)].pc # "catch") =>
    LET step == CurStep(Top)
    IN /\ \A n \in ObjectEdits(step) :
            IsObject(BeforeEdits[n]) =>
              LET old == objects[BeforeEdits[n].v[1]]
                  edit == step.edits[n].v[1]
                  new == varsHeap'[Top.vars][n]
              IN /\ IsObject(new)
                 /\ \A k \in ObjKeys :
                      objects'[new.v[1]][k] =
                        (IF Has(edit, k) THEN edit[k] ELSE old[k])
       /\ \A n \in VarNames :
            IsUndefined(step.edits[n]) =>
              varsHeap'[Top.vars][n] = BeforeEdits[n]
       /\ \A r \in 1..Len(objects) : objects'[r] = objects[r]
C36_EditMerges == [][C36_Step]_vars

\* p held { n: 1, m: 2 } and was edited with { m: 5, k: 6 }: it holds
\* { n: 1, m: 5, k: 6 }, item is still 99 and the literal is as it was
C36_Witness ==
  /\ Returned /\ script = << "editP" >>
  /\ objects[1] = LiteralObjects[1]
  /\ \E j \in 1..Len(stepResults) :
       LET r == stepResults[j].recorded.deep
       IN /\ r["p"] = Obj([n |-> 1, m |-> 5, k |-> 6])
          /\ r["item"] = Num(99)

\* the same for an object bound by a step before the one that edits it
C36_WitnessLater ==
  /\ Returned /\ script = << "incEdit" >>
  /\ \E i, j \in 1..Len(stepResults) :
       /\ stepResults[i].origin = "setObj"
       /\ stepResults[i].recorded.deep["p"] = Obj(LiteralObjects[1])
       /\ stepResults[j].origin = "editOnly"
       /\ stepResults[j].recorded.deep["p"] = Obj([n |-> 1, m |-> 5, k |-> 6])

(* ------------------------------- C37 ---------------------------------- *)
\* a step that fails one of the structural checks: no request, no URI,
\* several method properties, a loop without items, a handler that is not
\* registered
Malformed(step) ==
  \/ step.kind = "request" /\ step.request \in {"none", "multi", "nouri"}
  \/ step.kind = "loop" /\ ~step.hasItems
  \/ \E k \in 1..Len(step.handlers) : step.handlers[k] \notin RegisteredHandlers
\* an invocation of runScriptSteps has begun a step of its list
Begun(f) == f.idx > 0

\* C37: every structural check on a step list is made before the first
\* step of the list runs: an invocation whose list has a malformed step
\* anywhere never begins a step, so no request of the list is dispatched.
C37_Claim ==
  \A k \in 1..Len(frames) :
    LET l == StepList(frames[k].list)
    IN (\E j \in 1..Len(l) : Malformed(Library[l[j]])) => ~Begun(frames[k])

\* what the code does: the same for the steps processStep rejects, which
\* are the malformed steps except the loop and include steps that name a
\* handler that is not registered
C37_ProcessStepFirst ==
  \A k \in 1..Len(frames) :
    LET l == StepList(frames[k].list)
    IN (\E j \in 1..Len(l) : ProcessStepThrows(Library[l[j]])) =>
         ~Begun(frames[k])

\* a list whose second step names an unregistered handler was entered and
\* left without a step begun
C37_WitnessRejected ==
  /\ script = << "incGhostIn" >>
  /\ Len(frames) = 2 /\ frames[2].list = "GB" /\ frames[2].pc = "abort"
  /\ ~Begun(frames[2]) /\ ndisp = 0

\* an include step that names an unregistered handler ran its included
\* request and failed afterwards
C37_WitnessContainer ==
  /\ script = << "incGhostH" >>
  /\ ndisp = 1
  /\ \E k \in 1..Len(log) :
       log[k].ev = "raise" /\ log[k].info = HandlerUndefined

(* ------------------------------- C38 ---------------------------------- *)
\* the catch of a step records the error and the run goes on
Suppressed == Running /\ Top.pc = "catch" /\ scriptOpts.continueOnError

\* C38 as stated: with continueOnError a step that ends in a runtime-error
\* result leaves the live vars and sessions as they were when the step
\* started.
C38_OriginalStep ==
  Suppressed =>
    /\ varsHeap'[Top.vars] = Top.vars0
    /\ sessions' = Top.sess0
C38_Original == [][C38_OriginalStep]_vars

\* C38 amended: with continueOnError a step that ends in a runtime-error
\* result is not rolled back: recording the error changes no variable, no
\* object and no session, and the error result holds the vars and
\* sessions as the failed step left them, so what the step wrote before the
\* error is visible to later steps.
C38_Step ==
  Suppressed =>
    /\ varsHeap' = varsHeap /\ sessions' = sessions /\ objects' = objects
    /\ LET rs == frames'[Len(frames)].stepResults
           r == rs[Len(rs)]
       IN /\ Len(rs) = Len(Top.stepResults) + 1
          /\ r.status = 0
          /\ r.vars = varsHeap[Top.vars]
          /\ r.sessions = sessions
C38_NoRollback == [][C38_Step]_vars

\* a step set item, captured a session and failed in its captures; the
\* error result and the step after it have item and the session token, and
\* the step after it sent the token
C38_Witness ==
  /\ Returned /\ script = << "incRoll" >> /\ scriptOpts.continueOnError
  /\ \E i, j \in 1..Len(stepResults) :
       /\ i < j
       /\ stepResults[i].origin = "loginBadCap" /\ stepResults[i].status = 0
       /\ stepResults[i].vars["item"] = Num(99)
       /\ stepResults[i].sessions["s1"] = "t1"
       /\ stepResults[j].origin = "useSess"
       /\ stepResults[j].vars["item"] = Num(99)
       /\ stepResults[j].sessions["s1"] = "t1"
  /\ \E d \in 1..Len(log) :
       /\ log[d].ev = "dispatch" /\ log[d].tok = "t1"
       /\ ExecId(log[d].eno) = "useSess"

(* ------------------------------- C39 ---------------------------------- *)
\* the stack holds the loop and include steps around the invocation that
\* is running, outermost first
Balanced == stack = [k \in 1..Len(Top.encl) |-> ExecId(Top.encl[k])]
\* a loop or include step was recorded with a suppressed error
ContainerFailed ==
  \E k \in 1..Len(log) :
    log[k].ev = "error" /\ IsContainer(ExecId(log[k].eno))

\* C39: after a loop or include step finishes, normally or with an error
\* suppressed by continueOnError, the stack is as it was before the step:
\* between the steps of a list it holds exactly the steps that enclose the
\* list, so it is empty when a top-level step begins and when
\* runZillaScript returns.
C39_Claim ==
  /\ (Running /\ Top.pc = "begin") => Balanced
  /\ Returned => stack = <<>>

\* what the code does: the same as long as no loop or include step has
\* been recorded with an error
C39_BalancedUnlessFailed ==
  ~ContainerFailed =>
    /\ (Running /\ Top.pc = "begin") => Balanced
    /\ Returned => stack = <<>>

\* a run returned with an include step left on the stack
C39_WitnessStale ==
  /\ Returned /\ script = << "incBad" >>
  /\ stack = << "incBad" >>

\* a run with a loop inside an include returned with the stack empty
C39_WitnessBalanced ==
  /\ Returned /\ script = << "incLoop" >> /\ ~ContainerFailed
  /\ stack = <<>>
  /\ \E j \in 1..Len(stepResults) : Len(stepResults[j].stack) = 2

====
